---- MODULE Spec2Model ----
(***************************************************************************)
(* Model of src/integrated_analysis.js: the top-level analysis script that *)
(* normalizes DEX trade rows, folds them into wallet profiles, scores and  *)
(* ranks the wallets, derives interval, period, cycle and whale aggregates *)
(* and writes the pump-and-dump narrative and the hourly volume chart.     *)
(*                                                                         *)
(* Numbers.  Prices, amounts and timestamps are non-negative integers.     *)
(* A missing CSV cell (null) is NULL, the JavaScript NaN of a number field *)
(* is NAN, a non-numeric string in the timestamp column is BADTS.  The     *)
(* result of a JavaScript division is a fraction [n, d] in lowest terms:   *)
(* d = 0 with n > 0 is +Infinity and d = 0 with n = 0 is NaN.  Sums are    *)
(* exact, as they are in JavaScript for the integers of this model.        *)
(***************************************************************************)
EXTENDS Integers, Sequences, FiniteSets, TLC

VARIABLES
    pc,                    \* position of the script: the next top-level statement group
    data,                  \* rows parsed from the CSV file (line 36)
    sortedData,            \* normalized rows sorted by trade_timestamp (line 152)
    folded,                \* rows of sortedData the forEach of line 193 has visited
    walletActivity,        \* address -> profile, as its entries in insertion order (line 192)
    suspectedManipulators, \* scored wallets in Object.entries order (line 229)
    topSuspiciousWallets,  \* the ranked, truncated list (line 283)
    timeIntervals,         \* the 600 s buckets of sortedData (line 291)
    sortedPriceIntervals,  \* the price series, one point per priced 600 s bucket (line 331)
    priceChanges,          \* price-change events between consecutive points (line 336)
    pumpAndDumpPatterns,   \* price rises with retail buys and later large sells (line 365)
    detailedTimeIntervals, \* the 300 s buckets of sortedData (line 407)
    suspiciousActivityIntervals, \* scored 300 s buckets (line 412)
    topWalletsImpact,      \* market impact of the ranked wallets (line 515)
    periods,               \* the six market periods (line 536)
    coordinatedActivities, \* suspicious buckets with whale transactions (line 653)
    whaleEntries,          \* hour windows with whale buys (line 675)
    priceStats,            \* highest and lowest price of the single-pass reduction (line 163)
    sortedPrices,          \* the priced rows by descending price (line 498)
    marketCycles,          \* transitions between adjacent periods (line 596)
    pumpAndDumpEvidence,   \* the pump-and-dump narrative of the report (line 793)
    volumeChart            \* the data points of the hourly volume chart (line 1320)

priceOutputs == <<timeIntervals, sortedPriceIntervals, priceChanges, pumpAndDumpPatterns>>

derived == <<priceStats, sortedPrices, marketCycles, pumpAndDumpEvidence, volumeChart>>

outputs == <<walletActivity, suspectedManipulators, topSuspiciousWallets, priceOutputs,
             detailedTimeIntervals, suspiciousActivityIntervals, topWalletsImpact, periods,
             coordinatedActivities, whaleEntries, derived>>

vars == <<pc, data, sortedData, folded, outputs>>

-----------------------------------------------------------------------------
(* Bounds of the model *)

MaxRows == 3

-----------------------------------------------------------------------------
(* JavaScript values *)

NULL == -900001
NAN == -900002
BADTS == -900003

WHALE_THRESHOLD == 10000
MEDIUM_THRESHOLD == 1000
RETAIL_THRESHOLD == 100

\* JavaScript truthiness of a number-or-null cell: null, 0 and NaN are falsy;
\* a non-empty string (BADTS) is truthy.
Truthy(x) == x # NULL /\ x # 0 /\ x # NAN

\* parseInt of a timestamp cell: a non-numeric string or null gives NaN.
ParseInt(x) == IF x = BADTS \/ x = NULL THEN NAN ELSE x

\* parseFloat of a price or amount cell: null gives NaN.
ParseFloat(x) == IF x = NULL THEN NAN ELSE x

\* x || 0 and x || 1
OrZero(x) == IF Truthy(x) THEN x ELSE 0
OrOne(x) == IF Truthy(x) THEN x ELSE 1

-----------------------------------------------------------------------------
(* Input rows *)

Row(ts, type, bp, ba, sp, sa, w, net) ==
    [trade_timestamp |-> ts, type |-> type, buy_price |-> bp, buy_amount |-> ba,
     sell_price |-> sp, sell_amount |-> sa, trader_wallet_address |-> w,
     net_sol_balance_change |-> net]

\* The rows a CSV file may hold: well-formed buys and sells of two wallets at
\* retail and whale value, and the malformed rows the normalizer has to face.
RawRows ==
    { Row(100, "TOKEN_BUY", 2, 3, NULL, NULL, "w1", -1),
      Row(100, "TOKEN_SELL", NULL, NULL, 2, 3, "w1", 1),
      Row(400, "TOKEN_BUY", 5000, 3, NULL, NULL, "w2", 0),
      Row(4000, "TOKEN_SELL", NULL, NULL, 5000, 30, "w2", 15),
      Row(400, "TOKEN_BUY", 2, 3, NULL, NULL, "", 0),          \* no wallet address
      Row(400, "TOKEN_BUY", NULL, 3, NULL, NULL, "w1", 0),     \* buy without a buy price
      Row(100, "TOKEN_BUY", NULL, NULL, 2, 3, "w2", 0),        \* buy carrying sell fields only
      Row(400, "TOKEN_TRANSFER", NULL, NULL, 2, 3, "w1", 0),   \* a side that is neither buy nor sell
      Row(NULL, "TOKEN_BUY", 2, 3, NULL, NULL, "w1", 0),       \* no timestamp
      Row(BADTS, "TOKEN_BUY", 2, 3, NULL, NULL, "w1", 0),      \* non-numeric timestamp
      Row(BADTS, "TOKEN_SELL", NULL, NULL, 5000, 30, "w2", 15), \* the same, price above 1000
      Row(100, "TOKEN_SELL", NULL, NULL, 2, NULL, "w2", 0) }   \* no amount at all

-----------------------------------------------------------------------------
(* Normalization, lines 109-152 *)

\* lines 116-122
TransactionValue(row) ==
    IF row.type = "TOKEN_BUY" /\ Truthy(row.buy_price) /\ Truthy(row.buy_amount)
    THEN row.buy_price * row.buy_amount
    ELSE IF row.type = "TOKEN_SELL" /\ Truthy(row.sell_price) /\ Truthy(row.sell_amount)
    THEN row.sell_price * row.sell_amount
    ELSE 0

\* line 125: the rows the map callback turns into null
IsInvalidRow(row) ==
    \/ ~Truthy(row.trade_timestamp)
    \/ row.type = ""
    \/ (~Truthy(row.buy_amount) /\ ~Truthy(row.sell_amount))

\* line 130
RowPrice(row) ==
    IF row.type = "TOKEN_BUY" THEN ParseFloat(row.buy_price) ELSE ParseFloat(row.sell_price)

\* line 133, price > 1000 || price < 0.00000001: NaN compares false with
\* everything, and an integer is below 1e-8 exactly when it is below 1
IsAnomalousPrice(price) == price # NAN /\ (price > 1000 \/ price < 1)

\* lines 133-140: convertToUTC8 of a timestamp that is no number throws a RangeError
\* (toISOString of an invalid Date)
NormalizeThrows(rows) ==
    \E i \in 1..Len(rows) :
        /\ ~IsInvalidRow(rows[i])
        /\ IsAnomalousPrice(RowPrice(rows[i]))
        /\ rows[i].trade_timestamp = BADTS

\* lines 142-148
ProcessRow(row, sig) ==
    [trade_timestamp |-> ParseInt(row.trade_timestamp),
     type |-> row.type,
     buy_price |-> row.buy_price,
     sell_price |-> row.sell_price,
     buy_amount |-> IF row.type = "TOKEN_BUY" THEN OrZero(ParseFloat(row.buy_amount)) ELSE 0,
     sell_amount |-> IF row.type = "TOKEN_SELL" THEN OrZero(ParseFloat(row.sell_amount)) ELSE 0,
     price |-> RowPrice(row),
     transaction_value |-> TransactionValue(row),
     trader_wallet_address |-> row.trader_wallet_address,
     net_sol_balance_change |-> row.net_sol_balance_change,
     transaction_signature |-> sig]

\* lines 109-149: map, then filter(row => row !== null); a row's position in the
\* file stands for its transaction_signature
RECURSIVE ProcessedData(_)
ProcessedData(rows) ==
    IF rows = <<>> THEN <<>>
    ELSE LET n == Len(rows)
             head == ProcessedData(SubSeq(rows, 1, n - 1))
         IN  IF IsInvalidRow(rows[n]) THEN head
             ELSE Append(head, ProcessRow(rows[n], n))

\* lodash compareAscending on two numbers: NaN sorts after every number
CompareAscending(a, b) ==
    IF a = b /\ a # NAN THEN 0
    ELSE IF a = NAN THEN 1
    ELSE IF b = NAN THEN -1
    ELSE IF a > b THEN 1 ELSE -1

\* _.sortBy(processedData, 'trade_timestamp'), line 152: a stable sort (equal keys
\* fall back to the original index), written as an insertion from the right
RECURSIVE InsertByTimestamp(_, _)
InsertByTimestamp(s, x) ==
    IF s = <<>> THEN <<x>>
    ELSE LET last == s[Len(s)]
         IN  IF CompareAscending(x.trade_timestamp, last.trade_timestamp) < 0
             THEN Append(InsertByTimestamp(SubSeq(s, 1, Len(s) - 1), x), last)
             ELSE Append(s, x)

RECURSIVE SortByTimestamp(_)
SortByTimestamp(s) ==
    IF s = <<>> THEN <<>>
    ELSE InsertByTimestamp(SortByTimestamp(SubSeq(s, 1, Len(s) - 1)), s[Len(s)])

-----------------------------------------------------------------------------
(* Wallet activity, lines 192-226 *)

\* Math.min and Math.max: NaN if either argument is NaN
MathMin(a, b) == IF a = NAN \/ b = NAN THEN NAN ELSE IF a < b THEN a ELSE b

MathMax(a, b) == IF a = NAN \/ b = NAN THEN NAN ELSE IF a > b THEN a ELSE b

\* lines 197-204
NewProfile(row) ==
    [address |-> row.trader_wallet_address,
     buys |-> [count |-> 0, volume |-> 0, value |-> 0],
     sells |-> [count |-> 0, volume |-> 0, value |-> 0],
     totalTransactions |-> 0,
     firstSeen |-> row.trade_timestamp,
     lastSeen |-> row.trade_timestamp,
     netSOLChange |-> 0]

\* the counters of one side with the token amount added to the value as well
AddTradeAmountAsValue(side, amount, value) ==
    [count |-> side.count + 1,
     volume |-> side.volume + OrZero(amount),
     value |-> side.value + OrZero(amount)]

\* lines 214-222, one side's counters
AddTrade(side, amount, value) ==
    [count |-> side.count + 1,
     volume |-> side.volume + OrZero(amount),
     value |-> side.value + OrZero(value)]

\* the update with lastSeen taken from the row at hand, which is right only while
\* the rows arrive in timestamp order
UpdateProfileLastRow(wallet, row) ==
    [wallet EXCEPT
        !.firstSeen = MathMin(wallet.firstSeen, row.trade_timestamp),
        !.lastSeen = row.trade_timestamp,
        !.buys = IF row.type = "TOKEN_BUY"
                 THEN AddTrade(wallet.buys, row.buy_amount, row.transaction_value)
                 ELSE wallet.buys,
        !.sells = IF row.type = "TOKEN_SELL"
                  THEN AddTrade(wallet.sells, row.sell_amount, row.transaction_value)
                  ELSE wallet.sells,
        !.totalTransactions = wallet.totalTransactions + 1,
        !.netSOLChange = wallet.netSOLChange + OrZero(row.net_sol_balance_change)]

\* lines 207-225
UpdateProfile(wallet, row) ==
    [wallet EXCEPT
        !.firstSeen = MathMin(wallet.firstSeen, row.trade_timestamp),
        !.lastSeen = MathMax(wallet.lastSeen, row.trade_timestamp),
        !.buys = IF row.type = "TOKEN_BUY"
                 THEN AddTrade(wallet.buys, row.buy_amount, row.transaction_value)
                 ELSE wallet.buys,
        !.sells = IF row.type = "TOKEN_SELL"
                  THEN AddTrade(wallet.sells, row.sell_amount, row.transaction_value)
                  ELSE wallet.sells,
        !.totalTransactions = wallet.totalTransactions + 1,
        !.netSOLChange = wallet.netSOLChange + OrZero(row.net_sol_balance_change)]

\* The position of an address among the entries, 0 if it has no entry
IndexOfAddress(entries, address) ==
    IF \E k \in 1..Len(entries) : entries[k].address = address
    THEN CHOOSE k \in 1..Len(entries) : entries[k].address = address
    ELSE 0

\* lines 194-225: the forEach callback on one row
RecordTrade(entries, row) ==
    IF row.trader_wallet_address = "" THEN entries
    ELSE LET k == IndexOfAddress(entries, row.trader_wallet_address)
         IN  IF k = 0
             THEN Append(entries, UpdateProfile(NewProfile(row), row))
             ELSE [entries EXCEPT ![k] = UpdateProfile(entries[k], row)]

\* lines 192-226: the forEach over the rows, from an empty object
RECURSIVE WalletActivity(_)
WalletActivity(rows) ==
    IF rows = <<>> THEN <<>>
    ELSE RecordTrade(WalletActivity(SubSeq(rows, 1, Len(rows) - 1)), rows[Len(rows)])

-----------------------------------------------------------------------------
(* JavaScript division *)

RECURSIVE GCD(_, _)
GCD(a, b) == IF b = 0 THEN a ELSE GCD(b, a % b)

Abs(x) == IF x < 0 THEN -x ELSE x

\* n / d for integers n and d >= 0: x/0 is +Infinity or -Infinity, 0/0 is NaN
Divide(n, d) ==
    IF d = 0 THEN [n |-> IF n > 0 THEN 1 ELSE IF n < 0 THEN -1 ELSE 0, d |-> 0]
    ELSE LET g == GCD(Abs(n), d) IN [n |-> n \div g, d |-> d \div g]

Infinity == [n |-> 1, d |-> 0]
NaN == [n |-> 0, d |-> 0]

\* q > a/b and q < a/b for b > 0; both are false of NaN
Greater(q, a, b) == IF q.d = 0 THEN q.n > 0 ELSE q.n * b > a * q.d
Less(q, a, b) == IF q.d = 0 THEN q.n < 0 ELSE q.n * b < a * q.d

-----------------------------------------------------------------------------
(* Array.prototype.sort with a comparator on an integer key *)

\* The stable ascending order of the indices of keys (ECMAScript 2019 requires
\* the sort to be stable)
RECURSIVE InsertIndex(_, _, _)
InsertIndex(keys, s, x) ==
    IF s = <<>> THEN <<x>>
    ELSE LET last == s[Len(s)]
         IN  IF keys[x] < keys[last]
             THEN Append(InsertIndex(keys, SubSeq(s, 1, Len(s) - 1), x), last)
             ELSE Append(s, x)

RECURSIVE SortIndices(_, _)
SortIndices(keys, n) ==
    IF n = 0 THEN <<>> ELSE InsertIndex(keys, SortIndices(keys, n - 1), n)

-----------------------------------------------------------------------------
(* Suspected manipulators, lines 229-285 *)

\* the ratio without the guards: buys.count / sells.count
WalletBuyToSellRatioUnguarded(buyCount, sellCount) == Divide(buyCount, sellCount)

\* lines 232-234
WalletBuyToSellRatio(buyCount, sellCount) ==
    IF buyCount > 0 /\ sellCount > 0 THEN Divide(buyCount, sellCount)
    ELSE IF buyCount > 0 THEN Infinity ELSE Divide(0, 1)

\* line 237
TimeActiveHours(activity) == Divide(activity.lastSeen - activity.firstSeen, 3600)

\* the frequency with 0 for a wallet of duration zero
TransactionFrequencyOrZero(activity) ==
    IF Greater(TimeActiveHours(activity), 0, 1)
    THEN Divide(activity.totalTransactions * 3600, activity.lastSeen - activity.firstSeen)
    ELSE Divide(0, 1)

\* lines 240-242: totalTransactions / timeActiveHours, or totalTransactions
TransactionFrequency(activity) ==
    IF Greater(TimeActiveHours(activity), 0, 1)
    THEN Divide(activity.totalTransactions * 3600, activity.lastSeen - activity.firstSeen)
    ELSE Divide(activity.totalTransactions, 1)

\* the score with the two value tests as independent ifs
SuspiciousScoreNoElse(wallet) ==
    (IF wallet.totalValue > WHALE_THRESHOLD * 10 THEN 5 ELSE 0)
    + (IF wallet.totalValue > WHALE_THRESHOLD THEN 3 ELSE 0)
    + (IF Greater(wallet.buyToSellRatio, 10, 1) \/ Less(wallet.buyToSellRatio, 1, 10)
       THEN 3 ELSE 0)
    + (IF Greater(wallet.transactionFrequency, 10, 1) THEN 3
       ELSE IF Greater(wallet.transactionFrequency, 5, 1) THEN 2 ELSE 0)
    + (IF Less(wallet.timeActiveHours, 1, 1) /\ wallet.transactionCount > 20 THEN 4 ELSE 0)
    + (IF wallet.netSOLChange > 10 THEN 3 ELSE 0)

\* lines 259-279
SuspiciousScore(wallet) ==
    (IF wallet.totalValue > WHALE_THRESHOLD * 10 THEN 5
     ELSE IF wallet.totalValue > WHALE_THRESHOLD THEN 3 ELSE 0)
    + (IF Greater(wallet.buyToSellRatio, 10, 1) \/ Less(wallet.buyToSellRatio, 1, 10)
       THEN 3 ELSE 0)
    + (IF Greater(wallet.transactionFrequency, 10, 1) THEN 3
       ELSE IF Greater(wallet.transactionFrequency, 5, 1) THEN 2 ELSE 0)
    + (IF Less(wallet.timeActiveHours, 1, 1) /\ wallet.transactionCount > 20 THEN 4 ELSE 0)
    + (IF wallet.netSOLChange > 10 THEN 3 ELSE 0)

\* lines 230-256: the map callback, suspiciousScore still 0
Manipulator(activity) ==
    [address |-> activity.address,
     totalValue |-> activity.buys.value + activity.sells.value,
     buyToSellRatio |-> WalletBuyToSellRatio(activity.buys.count, activity.sells.count),
     transactionCount |-> activity.totalTransactions,
     timeActiveHours |-> TimeActiveHours(activity),
     transactionFrequency |-> TransactionFrequency(activity),
     netSOLChange |-> activity.netSOLChange,
     buys |-> activity.buys,
     sells |-> activity.sells,
     suspiciousScore |-> 0]

\* lines 229-280: Object.entries lists the addresses in insertion order
SuspectedManipulators(entries) ==
    [i \in 1..Len(entries) |->
        LET wallet == Manipulator(entries[i])
        IN  [wallet EXCEPT !.suspiciousScore = SuspiciousScore(wallet)]]

\* the sort with the comparator a.suspiciousScore - b.suspiciousScore
SortByScoreAscending(wallets) ==
    LET order == SortIndices([i \in 1..Len(wallets) |-> wallets[i].suspiciousScore],
                             Len(wallets))
    IN  [i \in 1..Len(wallets) |-> wallets[order[i]]]

\* line 284: sort((a, b) => b.suspiciousScore - a.suspiciousScore)
SortByScore(wallets) ==
    LET order == SortIndices([i \in 1..Len(wallets) |-> -wallets[i].suspiciousScore],
                             Len(wallets))
    IN  [i \in 1..Len(wallets) |-> wallets[order[i]]]

\* line 285: slice(0, 20)
TopN == 20

Slice(s, n) == SubSeq(s, 1, IF Len(s) < n THEN Len(s) ELSE n)

-----------------------------------------------------------------------------
(* Grouping by time bucket *)

RECURSIVE Sum(_)
Sum(s) == IF s = <<>> THEN 0 ELSE s[1] + Sum(Tail(s))

\* The number of distinct values of a sequence: new Set(...).size
SetSize(s) == Cardinality({s[i] : i \in 1..Len(s)})

RECURSIVE Ascending(_)
Ascending(S) ==
    IF S = {} THEN <<>>
    ELSE LET m == CHOOSE x \in S : \A y \in S : x <= y
         IN  <<m>> \o Ascending(S \ {m})

\* the grouping with the timestamp rounded to the nearest multiple of the width
GroupByRounded(rows, width, scale) ==
    LET key(r) == ((r.trade_timestamp + width \div 2) \div width) * scale
        keys == Ascending({key(rows[i]) : i \in 1..Len(rows)})
    IN  [k \in 1..Len(keys) |->
            [timestamp |-> keys[k],
             transactions |-> SelectSeq(rows, LAMBDA r : key(r) = keys[k])]]

\* _.groupBy(rows, row => Math.floor(row.trade_timestamp / width) * scale) followed
\* by Object.entries: the keys are integers, so they are listed in ascending order,
\* each with its rows in the order of the input
GroupBy(rows, width, scale) ==
    LET key(r) == (r.trade_timestamp \div width) * scale
        keys == Ascending({key(rows[i]) : i \in 1..Len(rows)})
    IN  [k \in 1..Len(keys) |->
            [timestamp |-> keys[k],
             transactions |-> SelectSeq(rows, LAMBDA r : key(r) = keys[k])]]

-----------------------------------------------------------------------------
(* Price series and price changes, lines 291-359 *)

\* null where a number is expected
NullNumber == [n |-> 0, d |-> -1]

\* truthiness of a quotient: null, NaN and 0 are falsy
TruthyNumber(q) == q.n # 0 /\ q.d >= 0

\* lines 300-304: _.meanBy over the transactions of one side that carry the side's
\* price, null if the side has no transaction; the mean of nothing is NaN
AvgPrice(side, field) ==
    IF Len(side) = 0 THEN NullNumber
    ELSE LET priced == SelectSeq(side, LAMBDA tx : Truthy(tx[field]))
         IN  Divide(Sum([k \in 1..Len(priced) |-> priced[k][field]]), Len(priced))

\* lines 295-328: the map callback on one 600 s bucket
PriceInterval(bucket) ==
    LET transactions == bucket.transactions
        buys == SelectSeq(transactions, LAMBDA tx : tx.type = "TOKEN_BUY")
        sells == SelectSeq(transactions, LAMBDA tx : tx.type = "TOKEN_SELL")
        avgBuyPrice == AvgPrice(buys, "buy_price")
        avgSellPrice == AvgPrice(sells, "sell_price")
    IN  [timestamp |-> bucket.timestamp,
         avgBuyPrice |-> avgBuyPrice,
         avgSellPrice |-> avgSellPrice,
         price |-> IF TruthyNumber(avgBuyPrice) THEN avgBuyPrice ELSE avgSellPrice,
         buyCount |-> Len(buys),
         sellCount |-> Len(sells),
         buyVolume |-> Sum([k \in 1..Len(buys) |-> buys[k].buy_amount]),
         sellVolume |-> Sum([k \in 1..Len(sells) |-> sells[k].sell_amount]),
         buyValue |-> Sum([k \in 1..Len(buys) |-> buys[k].transaction_value]),
         sellValue |-> Sum([k \in 1..Len(sells) |-> sells[k].transaction_value]),
         totalTransactions |-> Len(transactions)]

\* the series without the filter on the price
SortedPriceIntervalsUnfiltered(buckets) ==
    LET order == SortIndices([i \in 1..Len(buckets) |-> buckets[i].timestamp], Len(buckets))
    IN  [i \in 1..Len(buckets) |-> PriceInterval(buckets[order[i]])]

\* lines 295-333: map, keep the intervals with a price, sort by timestamp
SortedPriceIntervals(buckets) ==
    LET priced == SelectSeq([k \in 1..Len(buckets) |-> PriceInterval(buckets[k])],
                            LAMBDA interval : TruthyNumber(interval.price))
        order == SortIndices([i \in 1..Len(priced) |-> priced[i].timestamp], Len(priced))
    IN  [i \in 1..Len(priced) |-> priced[order[i]]]

\* the change taken relative to the end price: ((curr - prev) / curr) * 100
PercentChangeOverEnd(prev, curr) ==
    Divide((curr.n * prev.d - prev.n * curr.d) * 100, curr.n * prev.d)

\* line 342: ((curr.price - prev.price) / prev.price) * 100, for a positive prev
PercentChange(prev, curr) ==
    Divide((curr.n * prev.d - prev.n * curr.d) * 100, prev.n * curr.d)

\* Math.abs(q) > a for an integer a
AbsGreater(q, a) == Greater(q, a, 1) \/ Less(q, -a, 1)

\* lines 345-356
PriceChange(prev, curr) ==
    LET percentChange == PercentChange(prev.price, curr.price)
    IN  [startTimestamp |-> prev.timestamp,
         endTimestamp |-> curr.timestamp,
         startPrice |-> prev.price,
         endPrice |-> curr.price,
         percentChange |-> percentChange,
         buyVolume |-> curr.buyVolume,
         sellVolume |-> curr.sellVolume,
         isSignificant |-> AbsGreater(percentChange, 10)]

\* lines 336-359: the loop over the consecutive points of the series
PriceChanges(points) ==
    LET pairs == SelectSeq([i \in 1..(Len(points) - 1) |-> i],
                           LAMBDA i : /\ TruthyNumber(points[i].price)
                                      /\ TruthyNumber(points[i + 1].price)
                                      /\ AbsGreater(PercentChange(points[i].price,
                                                                   points[i + 1].price), 5))
    IN  [k \in 1..Len(pairs) |-> PriceChange(points[pairs[k]], points[pairs[k] + 1])]

-----------------------------------------------------------------------------
(* Pump-and-dump patterns, lines 365-401 *)

\* [...new Set(s)]: the distinct values in order of first occurrence
RECURSIVE Unique(_)
Unique(s) ==
    IF s = <<>> THEN <<>>
    ELSE LET head == Unique(SubSeq(s, 1, Len(s) - 1))
         IN  IF \E k \in 1..Len(head) : head[k] = s[Len(s)] THEN head
             ELSE Append(head, s[Len(s)])

\* the retail buys with a timestamp strictly between the two ends of the pump
RetailBuysInsidePump(rows, pump) ==
    SelectSeq(rows, LAMBDA tx :
        /\ tx.type = "TOKEN_BUY"
        /\ tx.trade_timestamp > pump.startTimestamp
        /\ tx.trade_timestamp < pump.endTimestamp
        /\ tx.transaction_value > 0
        /\ tx.transaction_value <= RETAIL_THRESHOLD)

\* lines 375-381
RetailBuysDuringPump(rows, pump) ==
    SelectSeq(rows, LAMBDA tx :
        /\ tx.type = "TOKEN_BUY"
        /\ tx.trade_timestamp >= pump.startTimestamp
        /\ tx.trade_timestamp <= pump.endTimestamp
        /\ tx.transaction_value > 0
        /\ tx.transaction_value <= RETAIL_THRESHOLD)

\* lines 384-389
WhaleSellsAfterPump(rows, pump) ==
    SelectSeq(rows, LAMBDA tx :
        /\ tx.type = "TOKEN_SELL"
        /\ tx.trade_timestamp > pump.endTimestamp
        /\ tx.trade_timestamp <= pump.endTimestamp + 1800
        /\ tx.transaction_value >= MEDIUM_THRESHOLD)

\* lines 392-399
PumpAndDumpPattern(rows, pump) ==
    LET retail == RetailBuysDuringPump(rows, pump)
        whale == WhaleSellsAfterPump(rows, pump)
    IN  [pump |-> pump,
         retailBuysCount |-> Len(retail),
         retailBuysValue |-> Sum([k \in 1..Len(retail) |-> retail[k].transaction_value]),
         whaleSellsCount |-> Len(whale),
         whaleSellsValue |-> Sum([k \in 1..Len(whale) |-> whale[k].transaction_value]),
         suspiciousWallets |->
             Unique([k \in 1..Len(whale) |-> whale[k].trader_wallet_address])]

\* the test of line 391 with the retail buys alone
IsPumpAndDumpRetailOnly(rows, pump) == Len(RetailBuysDuringPump(rows, pump)) > 5

\* line 391
IsPumpAndDump(rows, pump) ==
    Len(RetailBuysDuringPump(rows, pump)) > 5 /\ Len(WhaleSellsAfterPump(rows, pump)) > 0

\* lines 365-401: the price rises above 10 % that pass the test of line 391
PumpAndDumpPatterns(rows, changes) ==
    LET pumps == SelectSeq(changes, LAMBDA change :
                     Greater(change.percentChange, 10, 1) /\ IsPumpAndDump(rows, change))
    IN  [k \in 1..Len(pumps) |-> PumpAndDumpPattern(rows, pumps[k])]

-----------------------------------------------------------------------------
(* Suspicious activity intervals, lines 407-493 *)

\* the ratio as buys / (sells || 1)
IntervalBuyToSellRatioOverOne(buyCount, sellCount) ==
    IF sellCount > 0 THEN Divide(buyCount, sellCount) ELSE Divide(buyCount, 1)

\* line 446
IntervalBuyToSellRatio(buyCount, sellCount) ==
    IF sellCount > 0 THEN Divide(buyCount, sellCount)
    ELSE IF buyCount > 0 THEN Infinity ELSE Divide(0, 1)

\* the wallets with two or more transactions of either side
PotentialWashTradersAnySide(transactions) ==
    {a \in {transactions[i].trader_wallet_address : i \in 1..Len(transactions)} \ {""} :
        Cardinality({i \in 1..Len(transactions) :
                        transactions[i].trader_wallet_address = a}) >= 2}

\* lines 424-441: the wallets with a buy and a sell among the transactions
PotentialWashTraders(transactions) ==
    {a \in {transactions[i].trader_wallet_address : i \in 1..Len(transactions)} \ {""} :
        /\ \E i \in 1..Len(transactions) :
              transactions[i].trader_wallet_address = a /\ transactions[i].type = "TOKEN_BUY"
        /\ \E i \in 1..Len(transactions) :
              transactions[i].trader_wallet_address = a /\ transactions[i].type = "TOKEN_SELL"}

\* lines 413-491: the map callback on one 300 s bucket
ActivityInterval(bucket) ==
    LET transactions == bucket.transactions
        addresses == [i \in 1..Len(transactions) |-> transactions[i].trader_wallet_address]
        buys == SelectSeq(transactions, LAMBDA tx : tx.type = "TOKEN_BUY")
        sells == SelectSeq(transactions, LAMBDA tx : tx.type = "TOKEN_SELL")
        large == SelectSeq(transactions, LAMBDA tx : tx.transaction_value >= MEDIUM_THRESHOLD)
        whales == SelectSeq(transactions, LAMBDA tx : tx.transaction_value >= WHALE_THRESHOLD)
        ratio == IntervalBuyToSellRatio(Len(buys), Len(sells))
        wash == Cardinality(PotentialWashTraders(transactions))
    IN  [timestamp |-> bucket.timestamp,
         totalTransactions |-> Len(transactions),
         uniqueWallets |-> SetSize(addresses),
         transactionsPerWallet |-> Divide(Len(transactions), OrOne(SetSize(addresses))),
         largeTransactionsCount |-> Len(large),
         buyCount |-> Len(buys),
         sellCount |-> Len(sells),
         buyToSellRatio |-> ratio,
         washTradingCount |-> wash,
         whaleTransactionsCount |-> Len(whales),
         uniqueWhaleWallets |-> SetSize([i \in 1..Len(whales) |-> whales[i].trader_wallet_address]),
         suspiciousScore |->
            (IF Len(transactions) > 20 /\ SetSize(addresses) < 5 THEN 3 ELSE 0)
            + wash * 2
            + (IF Greater(ratio, 10, 1) \/ Less(ratio, 1, 10) THEN 2 ELSE 0)
            + (IF Len(whales) > 3 THEN 3 ELSE 0)]

\* lines 407-493: group by 300 s, map, keep score > 0, sort by descending score
SuspiciousActivityIntervals(rows) ==
    LET buckets == GroupBy(rows, 300, 300)
        scored == SelectSeq([k \in 1..Len(buckets) |-> ActivityInterval(buckets[k])],
                            LAMBDA interval : interval.suspiciousScore > 0)
        order == SortIndices([i \in 1..Len(scored) |-> -scored[i].suspiciousScore],
                             Len(scored))
    IN  [i \in 1..Len(scored) |-> scored[order[i]]]

-----------------------------------------------------------------------------
(* Market impact of the top wallets, lines 513-524 *)

\* line 514
TotalTransactionValue(rows) == Sum([i \in 1..Len(rows) |-> rows[i].transaction_value])

\* the share as a fraction of 1: walletValue / totalTransactionValue
MarketImpactAsFraction(rows, address) ==
    LET own == SelectSeq(rows, LAMBDA tx : tx.trader_wallet_address = address)
    IN  Divide(TotalTransactionValue(own), TotalTransactionValue(rows))

\* lines 516-518: (walletValue / totalTransactionValue) * 100
MarketImpact(rows, address) ==
    LET own == SelectSeq(rows, LAMBDA tx : tx.trader_wallet_address = address)
    IN  Divide(100 * TotalTransactionValue(own), TotalTransactionValue(rows))

-----------------------------------------------------------------------------
(* Market periods, lines 530-590 *)

\* row.buy_price || row.sell_price
BuyOrSellPrice(tx) == IF Truthy(tx.buy_price) THEN tx.buy_price ELSE tx.sell_price

\* lines 578-580
PeriodBuyToSellRatio(buyCount, sellCount) ==
    IF sellCount > 0 THEN Divide(buyCount, sellCount)
    ELSE IF buyCount > 0 THEN Infinity ELSE Divide(0, 1)

\* line 535
PeriodDuration(rows) ==
    (rows[Len(rows)].trade_timestamp - rows[1].trade_timestamp) \div 6

\* lines 539-589: period i of 0..5
Period(rows, i) ==
    LET startTime == rows[1].trade_timestamp + i * PeriodDuration(rows)
        endTime == rows[1].trade_timestamp + (i + 1) * PeriodDuration(rows)
        txs == SelectSeq(rows, LAMBDA tx : tx.trade_timestamp >= startTime
                                            /\ tx.trade_timestamp < endTime)
        buys == SelectSeq(txs, LAMBDA tx : tx.type = "TOKEN_BUY")
        sells == SelectSeq(txs, LAMBDA tx : tx.type = "TOKEN_SELL")
        priceAtStart == IF Len(txs) > 0 THEN BuyOrSellPrice(txs[1]) ELSE NULL
        priceAtEnd == IF Len(txs) > 0 THEN BuyOrSellPrice(txs[Len(txs)]) ELSE NULL
        whales == SelectSeq(txs, LAMBDA tx : tx.transaction_value >= WHALE_THRESHOLD)
        priced == SelectSeq(txs, LAMBDA tx : Truthy(BuyOrSellPrice(tx)))
    IN  [periodNumber |-> i + 1,
         startTime |-> startTime,
         endTime |-> endTime,
         transactionCount |-> Len(txs),
         buyCount |-> Len(buys),
         sellCount |-> Len(sells),
         buyToSellRatio |-> PeriodBuyToSellRatio(Len(buys), Len(sells)),
         avgPrice |-> IF Len(txs) > 0
                      THEN Divide(Sum([k \in 1..Len(priced) |-> BuyOrSellPrice(priced[k])]),
                                  Len(priced))
                      ELSE NullNumber,
         priceAtStart |-> priceAtStart,
         priceAtEnd |-> priceAtEnd,
         priceChange |-> IF Truthy(priceAtStart) /\ Truthy(priceAtEnd)
                         THEN Divide((priceAtEnd - priceAtStart) * 100, priceAtStart)
                         ELSE NullNumber,
         activeWalletsCount |-> SetSize([k \in 1..Len(txs) |-> txs[k].trader_wallet_address]),
         whaleTransactionsCount |-> Len(whales),
         whaleWalletsCount |-> SetSize([k \in 1..Len(whales) |-> whales[k].trader_wallet_address])]

\* lines 536-590
Periods(rows) == [k \in 1..6 |-> Period(rows, k - 1)]

-----------------------------------------------------------------------------
(* Coordinated activities, lines 653-663 *)

\* line 654
IsCoordinated(interval) ==
    interval.suspiciousScore >= 5 /\ interval.whaleTransactionsCount >= 2

\* lines 653-663
CoordinatedActivities(intervals) ==
    LET kept == SelectSeq(intervals, IsCoordinated)
    IN  [k \in 1..Len(kept) |->
            [timestamp |-> kept[k].timestamp,
             suspiciousScore |-> kept[k].suspiciousScore,
             whaleCount |-> kept[k].uniqueWhaleWallets,
             transactionCount |-> kept[k].totalTransactions,
             buyToSellRatio |-> kept[k].buyToSellRatio]]

-----------------------------------------------------------------------------
(* Whale entries, lines 667-699 *)

\* the total over the buys alone
TotalTokenVolumeOfBuys(rows) ==
    Sum([i \in 1..Len(rows) |->
            IF rows[i].type = "TOKEN_BUY" THEN OrZero(rows[i].buy_amount) ELSE 0])

\* lines 668-672
TotalTokenVolume(rows) ==
    Sum([i \in 1..Len(rows) |->
            IF rows[i].type = "TOKEN_BUY" THEN OrZero(rows[i].buy_amount)
            ELSE IF rows[i].type = "TOKEN_SELL" THEN OrZero(rows[i].sell_amount)
            ELSE 0])

\* lines 681-697: the entry of one hour window
WhaleEntry(rows, window) ==
    LET buys == SelectSeq(window.transactions,
                          LAMBDA tx : tx.type = "TOKEN_BUY"
                                      /\ tx.transaction_value >= WHALE_THRESHOLD)
        totalBuyVolume == Sum([i \in 1..Len(buys) |-> buys[i].buy_amount])
    IN  [timestamp |-> window.timestamp,
         whaleCount |-> SetSize([i \in 1..Len(buys) |-> buys[i].trader_wallet_address]),
         totalBuyVolume |-> totalBuyVolume,
         percentOfTotalSupply |-> Divide(100 * totalBuyVolume, TotalTokenVolume(rows)),
         transactions |-> Len(buys)]

\* lines 675-699: the windows are keyed by Math.floor(trade_timestamp / 3600)
WhaleEntries(rows) ==
    LET windows == GroupBy(rows, 3600, 1)
    IN  SelectSeq([k \in 1..Len(windows) |-> WhaleEntry(rows, windows[k])],
                  LAMBDA entry : entry.transactions >= 2)

-----------------------------------------------------------------------------
(* Price statistics, lines 162-179 *)

\* the reduce callback folded over the rows: a row takes part when its price, the
\* price of its own side, is truthy
RECURSIVE PriceStats(_)
PriceStats(rows) ==
    IF rows = <<>> THEN [max |-> NULL, min |-> NULL]
    ELSE LET stats == PriceStats(SubSeq(rows, 1, Len(rows) - 1))
             price == rows[Len(rows)].price
         IN  IF Truthy(price)
             THEN [max |-> IF stats.max = NULL \/ price > stats.max THEN price ELSE stats.max,
                   min |-> IF stats.min = NULL \/ price < stats.min THEN price ELSE stats.min]
             ELSE stats

-----------------------------------------------------------------------------
(* Highest and lowest price, lines 497-508 *)

\* lines 498-505: the rows with a buy price or a sell price, by descending
\* buy_price || sell_price; highestPrice is the first and lowestPrice the last
SortedPrices(rows) ==
    LET priced == SelectSeq(rows, LAMBDA row : Truthy(row.buy_price) \/ Truthy(row.sell_price))
        points == [i \in 1..Len(priced) |->
                      [timestamp |-> priced[i].trade_timestamp,
                       price |-> BuyOrSellPrice(priced[i])]]
        order == SortIndices([i \in 1..Len(points) |-> -points[i].price], Len(points))
    IN  [i \in 1..Len(points) |-> points[order[i]]]

-----------------------------------------------------------------------------
(* Market cycles, lines 596-648 *)

\* line 604
IsAccumulationToMarkup(current, next) ==
    Less(current.priceChange, 5, 1) /\ Greater(next.priceChange, 10, 1)

\* the test of line 619 without its condition on the current period
IsMarkupToDistributionByNext(current, next) ==
    Less(next.priceChange, 5, 1) /\ Less(next.buyToSellRatio, 1, 1)

\* line 619
IsMarkupToDistribution(current, next) ==
    /\ Greater(current.priceChange, 10, 1)
    /\ Less(next.priceChange, 5, 1)
    /\ Less(next.buyToSellRatio, 1, 1)

\* line 634
IsDistributionToMarkdown(current, next) ==
    /\ Less(current.priceChange, 5, 1)
    /\ Less(current.buyToSellRatio, 1, 1)
    /\ Less(next.priceChange, -10, 1)

\* the object pushed at lines 605-615, 620-630 and 635-645
MarketCycle(current, next, type, priceChange) ==
    [startPeriod |-> current.periodNumber,
     endPeriod |-> next.periodNumber,
     type |-> type,
     startTime |-> current.startTime,
     endTime |-> next.endTime,
     priceChange |-> priceChange]

\* lines 599-647: the body of the loop for one pair of adjacent periods
CyclesOfPair(current, next) ==
    IF TruthyNumber(current.priceChange) /\ TruthyNumber(next.priceChange)
    THEN (IF IsAccumulationToMarkup(current, next)
          THEN <<MarketCycle(current, next, "accumulation_to_markup", next.priceChange)>>
          ELSE <<>>)
         \o (IF IsMarkupToDistribution(current, next)
             THEN <<MarketCycle(current, next, "markup_to_distribution", current.priceChange)>>
             ELSE <<>>)
         \o (IF IsDistributionToMarkdown(current, next)
             THEN <<MarketCycle(current, next, "distribution_to_markdown", next.priceChange)>>
             ELSE <<>>)
    ELSE <<>>

\* lines 596-648: the loop over i = 0 .. periods.length - 2, here up to pair n
RECURSIVE CyclesUpTo(_, _)
CyclesUpTo(ps, n) ==
    IF n <= 0 THEN <<>> ELSE CyclesUpTo(ps, n - 1) \o CyclesOfPair(ps[n], ps[n + 1])

MarketCycles(ps) == CyclesUpTo(ps, Len(ps) - 1)

-----------------------------------------------------------------------------
(* The pump-and-dump narrative of the report, lines 792-846 *)

\* lines 798-803: whale buys before the pump at a price below startPrice * 0.8; the
\* start price is the fraction n / d, and price < (n / d) * 0.8 is taken exactly
LowPriceAccumulation(rows, pattern) ==
    SelectSeq(rows, LAMBDA tx :
        /\ tx.type = "TOKEN_BUY"
        /\ tx.transaction_value >= WHALE_THRESHOLD
        /\ tx.trade_timestamp < pattern.pump.startTimestamp
        /\ Truthy(tx.buy_price)
        /\ tx.buy_price * 10 * pattern.pump.startPrice.d < 8 * pattern.pump.startPrice.n)

\* lines 806-812
SmallBuysDuringPump(rows, pattern) ==
    SelectSeq(rows, LAMBDA tx :
        /\ tx.type = "TOKEN_BUY"
        /\ tx.transaction_value < MEDIUM_THRESHOLD
        /\ tx.transaction_value > 0
        /\ tx.trade_timestamp >= pattern.pump.startTimestamp
        /\ tx.trade_timestamp <= pattern.pump.endTimestamp)

\* the evidence without the test on the price of the whale buys
HasEvidenceAtAnyPrice(rows, pattern) ==
    /\ \E i \in 1..Len(rows) :
          /\ rows[i].type = "TOKEN_BUY"
          /\ rows[i].transaction_value >= WHALE_THRESHOLD
          /\ rows[i].trade_timestamp < pattern.pump.startTimestamp
    /\ Len(SmallBuysDuringPump(rows, pattern)) > 5

\* line 831
HasEvidence(rows, pattern) ==
    Len(LowPriceAccumulation(rows, pattern)) > 0 /\ Len(SmallBuysDuringPump(rows, pattern)) > 5

\* lines 793-846: the narrative is written for the first pattern of the list
PumpAndDumpEvidence(rows, patterns) ==
    IF Len(patterns) > 0 /\ HasEvidence(rows, patterns[1])
    THEN "typical pump and dump"
    ELSE "not detected"

-----------------------------------------------------------------------------
(* The hourly volume chart, lines 1320-1493 *)

\* lines 70-106 and 1334-1335: createSafeDate reads a number below 10000000000 as
\* epoch seconds, setMinutes(0, 0, 0) goes back to the start of the hour (the
\* zone of the process is a whole number of hours from UTC) and getTime() / 1000
\* is that instant in seconds
HourTimestamp(ts) == (ts \div 3600) * 3600

\* createSafeDate gives null for a timestamp that is NaN and the row is skipped
Dated(rows) == SelectSeq(rows, LAMBDA tx : tx.trade_timestamp # NAN)

\* lines 1337-1355: the volumes of the hour as the forEach leaves them
HourVolume(rows, hour) ==
    LET txs == SelectSeq(Dated(rows), LAMBDA tx : HourTimestamp(tx.trade_timestamp) = hour)
    IN  [buys |-> Sum([i \in 1..Len(txs) |->
                          IF txs[i].type = "TOKEN_BUY" THEN OrZero(txs[i].buy_amount) ELSE 0]),
         sells |-> Sum([i \in 1..Len(txs) |->
                          IF txs[i].type = "TOKEN_SELL" THEN OrZero(txs[i].sell_amount) ELSE 0])]

\* the keys of intervalData: the hours that hold a trade
TradedHours(rows) ==
    {HourTimestamp(Dated(rows)[i].trade_timestamp) : i \in 1..Len(Dated(rows))}

\* lines 1385-1391: the keys of completeIntervalData, from the first hour to the
\* last in steps of 3600
CompleteHours(rows) ==
    LET hours == TradedHours(rows)
        minTimestamp == CHOOSE h \in hours : \A g \in hours : h <= g
        maxTimestamp == CHOOSE h \in hours : \A g \in hours : g <= h
    IN  {h \in minTimestamp..maxTimestamp : (h - minTimestamp) % 3600 = 0}

\* String(n): the decimal digits of a natural number
RECURSIVE Digits(_)
Digits(n) == IF n < 10 THEN <<n>> ELSE Append(Digits(n \div 10), n % 10)

\* the order of Array.prototype.sort without a comparator: the keys compare as
\* strings, code unit by code unit, and a proper prefix comes first
RECURSIVE StringLess(_, _)
StringLess(a, b) ==
    IF a = <<>> THEN b # <<>>
    ELSE IF b = <<>> THEN FALSE
    ELSE IF a[1] # b[1] THEN a[1] < b[1]
    ELSE StringLess(Tail(a), Tail(b))

\* line 1397: Object.keys(...).sort().map(Number), the keys being distinct
RECURSIVE SortAsStrings(_)
SortAsStrings(S) ==
    IF S = {} THEN <<>>
    ELSE LET m == CHOOSE x \in S : \A y \in S \ {x} : StringLess(Digits(x), Digits(y))
         IN  <<m>> \o SortAsStrings(S \ {m})

\* lines 1385-1391 without the filling of the hours that hold no trade
ChartHoursTradedOnly(rows) == SortAsStrings(TradedHours(rows))

\* lines 1385-1397: the hours of the chart in the order of the loop of line 1397
ChartHours(rows) == SortAsStrings(CompleteHours(rows))

\* lines 1326-1417: the points of the two datasets; x is the hour, which
\* toISOString renders one to one, and an hour without trades has volume 0
VolumeChart(rows) ==
    IF TradedHours(rows) = {} THEN [buyData |-> <<>>, sellData |-> <<>>]
    ELSE LET hours == ChartHours(rows)
         IN  [buyData |-> [k \in 1..Len(hours) |->
                              [x |-> hours[k], y |-> HourVolume(rows, hours[k]).buys]],
              sellData |-> [k \in 1..Len(hours) |->
                              [x |-> hours[k], y |-> HourVolume(rows, hours[k]).sells]]]

-----------------------------------------------------------------------------
(* Actions *)

Init ==
    /\ pc = "read"
    /\ data = <<>>
    /\ sortedData = <<>>
    /\ folded = 0
    /\ walletActivity = <<>>
    /\ suspectedManipulators = <<>>
    /\ topSuspiciousWallets = <<>>
    /\ timeIntervals = <<>>
    /\ sortedPriceIntervals = <<>>
    /\ priceChanges = <<>>
    /\ pumpAndDumpPatterns = <<>>
    /\ detailedTimeIntervals = <<>>
    /\ suspiciousActivityIntervals = <<>>
    /\ topWalletsImpact = <<>>
    /\ periods = <<>>
    /\ coordinatedActivities = <<>>
    /\ whaleEntries = <<>>
    /\ priceStats = [max |-> NULL, min |-> NULL]
    /\ sortedPrices = <<>>
    /\ marketCycles = <<>>
    /\ pumpAndDumpEvidence = ""
    /\ volumeChart = [buyData |-> <<>>, sellData |-> <<>>]

\* Papa.parse, lines 35-40: the file holds one more row
ReadRow ==
    /\ pc = "read"
    /\ Len(data) < MaxRows
    /\ \E row \in RawRows : data' = Append(data, row)
    /\ UNCHANGED <<pc, sortedData, folded, outputs>>

\* lines 109-152
Normalize ==
    /\ pc = "read"
    /\ IF NormalizeThrows(data)
       THEN pc' = "crashed" /\ UNCHANGED sortedData
       ELSE /\ sortedData' = SortByTimestamp(ProcessedData(data))
            /\ pc' = "timeRange"
    /\ UNCHANGED <<data, folded, outputs>>

\* lines 155-185: sortedData[0].trade_timestamp on an empty array is a TypeError,
\* and convertToUTC8(NaN) is a RangeError; neither is caught.  The price
\* statistics follow; a NaN timestamp sorts last, so none is left for their
\* convertToUTC8 to throw on
LogTimeRange ==
    /\ pc = "timeRange"
    /\ IF \/ sortedData = <<>>
          \/ sortedData[1].trade_timestamp = NAN
          \/ sortedData[Len(sortedData)].trade_timestamp = NAN
       THEN pc' = "crashed" /\ UNCHANGED priceStats
       ELSE pc' = "wallets" /\ priceStats' = PriceStats(sortedData)
    /\ UNCHANGED <<data, sortedData, folded, walletActivity, suspectedManipulators,
                   topSuspiciousWallets, priceOutputs, detailedTimeIntervals,
                   suspiciousActivityIntervals, topWalletsImpact, periods,
                   coordinatedActivities, whaleEntries, sortedPrices, marketCycles,
                   pumpAndDumpEvidence, volumeChart>>

\* lines 193-226: the forEach callback on the next row of sortedData; the script
\* goes on after the last row
FoldWallets ==
    /\ pc = "wallets"
    /\ folded < Len(sortedData)
    /\ walletActivity' = RecordTrade(walletActivity, sortedData[folded + 1])
    /\ folded' = folded + 1
    /\ pc' = IF folded + 1 = Len(sortedData) THEN "score" ELSE "wallets"
    /\ UNCHANGED <<data, sortedData, suspectedManipulators, topSuspiciousWallets,
                   priceOutputs, detailedTimeIntervals, suspiciousActivityIntervals,
                   topWalletsImpact, periods, coordinatedActivities, whaleEntries, derived>>

\* lines 229-280
ScoreWallets ==
    /\ pc = "score"
    /\ suspectedManipulators' = SuspectedManipulators(walletActivity)
    /\ pc' = "rank"
    /\ UNCHANGED <<data, sortedData, folded, walletActivity, topSuspiciousWallets,
                   priceOutputs, detailedTimeIntervals, suspiciousActivityIntervals,
                   topWalletsImpact, periods, coordinatedActivities, whaleEntries, derived>>

\* lines 283-285: sort works in place, so suspectedManipulators is sorted as well
RankWallets ==
    /\ pc = "rank"
    /\ suspectedManipulators' = SortByScore(suspectedManipulators)
    /\ topSuspiciousWallets' = Slice(SortByScore(suspectedManipulators), TopN)
    /\ pc' = "prices"
    /\ UNCHANGED <<data, sortedData, folded, walletActivity,
                   priceOutputs, detailedTimeIntervals, suspiciousActivityIntervals,
                   topWalletsImpact, periods, coordinatedActivities, whaleEntries, derived>>

\* lines 291-333
BuildPriceSeries ==
    /\ pc = "prices"
    /\ timeIntervals' = GroupBy(sortedData, 600, 600)
    /\ sortedPriceIntervals' = SortedPriceIntervals(GroupBy(sortedData, 600, 600))
    /\ pc' = "priceChanges"
    /\ UNCHANGED <<data, sortedData, folded, walletActivity, suspectedManipulators,
                   topSuspiciousWallets, priceChanges, pumpAndDumpPatterns,
                   detailedTimeIntervals, suspiciousActivityIntervals,
                   topWalletsImpact, periods, coordinatedActivities, whaleEntries, derived>>

\* lines 336-359
FindPriceChanges ==
    /\ pc = "priceChanges"
    /\ priceChanges' = PriceChanges(sortedPriceIntervals)
    /\ pc' = "pump"
    /\ UNCHANGED <<data, sortedData, folded, walletActivity, suspectedManipulators,
                   topSuspiciousWallets, timeIntervals, sortedPriceIntervals,
                   pumpAndDumpPatterns, detailedTimeIntervals, suspiciousActivityIntervals,
                   topWalletsImpact, periods, coordinatedActivities, whaleEntries, derived>>

\* lines 365-401
FindPumpAndDump ==
    /\ pc = "pump"
    /\ pumpAndDumpPatterns' = PumpAndDumpPatterns(sortedData, priceChanges)
    /\ pc' = "intervals"
    /\ UNCHANGED <<data, sortedData, folded, walletActivity, suspectedManipulators,
                   topSuspiciousWallets, timeIntervals, sortedPriceIntervals, priceChanges,
                   detailedTimeIntervals, suspiciousActivityIntervals,
                   topWalletsImpact, periods, coordinatedActivities, whaleEntries, derived>>

\* lines 407-493
FindSuspiciousIntervals ==
    /\ pc = "intervals"
    /\ detailedTimeIntervals' = GroupBy(sortedData, 300, 300)
    /\ suspiciousActivityIntervals' = SuspiciousActivityIntervals(sortedData)
    /\ pc' = "extrema"
    /\ UNCHANGED <<data, sortedData, folded, walletActivity, suspectedManipulators,
                   topSuspiciousWallets, priceOutputs, topWalletsImpact, periods,
                   coordinatedActivities, whaleEntries, derived>>

\* lines 497-508
FindPriceExtrema ==
    /\ pc = "extrema"
    /\ sortedPrices' = SortedPrices(sortedData)
    /\ pc' = "impact"
    /\ UNCHANGED <<data, sortedData, folded, walletActivity, suspectedManipulators,
                   topSuspiciousWallets, priceOutputs, detailedTimeIntervals,
                   suspiciousActivityIntervals, topWalletsImpact, periods,
                   coordinatedActivities, whaleEntries, priceStats, marketCycles,
                   pumpAndDumpEvidence, volumeChart>>

\* lines 513-524
ComputeMarketImpact ==
    /\ pc = "impact"
    /\ topWalletsImpact' =
           [i \in 1..Len(topSuspiciousWallets) |->
               [marketImpact |-> MarketImpact(sortedData, topSuspiciousWallets[i].address)]
                   @@ topSuspiciousWallets[i]]
    /\ pc' = "periods"
    /\ UNCHANGED <<data, sortedData, folded, walletActivity, suspectedManipulators,
                   topSuspiciousWallets, priceOutputs, detailedTimeIntervals,
                   suspiciousActivityIntervals, periods, coordinatedActivities,
                   whaleEntries, derived>>

\* lines 530-590: sortedTransactions is sortedData sorted once more by the same
\* key, that is sortedData itself
SplitPeriods ==
    /\ pc = "periods"
    /\ periods' = Periods(SortByTimestamp(sortedData))
    /\ pc' = "cycles"
    /\ UNCHANGED <<data, sortedData, folded, walletActivity, suspectedManipulators,
                   topSuspiciousWallets, priceOutputs, detailedTimeIntervals,
                   suspiciousActivityIntervals, topWalletsImpact, coordinatedActivities,
                   whaleEntries, derived>>

\* lines 596-648
FindMarketCycles ==
    /\ pc = "cycles"
    /\ marketCycles' = MarketCycles(periods)
    /\ pc' = "coordinated"
    /\ UNCHANGED <<data, sortedData, folded, walletActivity, suspectedManipulators,
                   topSuspiciousWallets, priceOutputs, detailedTimeIntervals,
                   suspiciousActivityIntervals, topWalletsImpact, periods,
                   coordinatedActivities, whaleEntries, priceStats, sortedPrices,
                   pumpAndDumpEvidence, volumeChart>>

\* lines 653-663
FindCoordinatedActivities ==
    /\ pc = "coordinated"
    /\ coordinatedActivities' = CoordinatedActivities(suspiciousActivityIntervals)
    /\ pc' = "whales"
    /\ UNCHANGED <<data, sortedData, folded, walletActivity, suspectedManipulators,
                   topSuspiciousWallets, priceOutputs, detailedTimeIntervals,
                   suspiciousActivityIntervals, topWalletsImpact, periods, whaleEntries, derived>>

\* lines 667-699
FindWhaleEntries ==
    /\ pc = "whales"
    /\ whaleEntries' = WhaleEntries(SortByTimestamp(sortedData))
    /\ pc' = "report"
    /\ UNCHANGED <<data, sortedData, folded, walletActivity, suspectedManipulators,
                   topSuspiciousWallets, priceOutputs, detailedTimeIntervals,
                   suspiciousActivityIntervals, topWalletsImpact, periods,
                   coordinatedActivities, derived>>

\* lines 707-963: generateAnalysisReport, of which the model keeps the pump-and-dump
\* narrative; it reads the lists and changes none of them
GenerateAnalysisReport ==
    /\ pc = "report"
    /\ pumpAndDumpEvidence' = PumpAndDumpEvidence(sortedData, pumpAndDumpPatterns)
    /\ pc' = "charts"
    /\ UNCHANGED <<data, sortedData, folded, walletActivity, suspectedManipulators,
                   topSuspiciousWallets, priceOutputs, detailedTimeIntervals,
                   suspiciousActivityIntervals, topWalletsImpact, periods,
                   coordinatedActivities, whaleEntries, priceStats, sortedPrices,
                   marketCycles, volumeChart>>

\* lines 1320-1493 and 1821: createVolumeChartConfig, called by generateHTML
CreateVolumeChart ==
    /\ pc = "charts"
    /\ volumeChart' = VolumeChart(sortedData)
    /\ pc' = "done"
    /\ UNCHANGED <<data, sortedData, folded, walletActivity, suspectedManipulators,
                   topSuspiciousWallets, priceOutputs, detailedTimeIntervals,
                   suspiciousActivityIntervals, topWalletsImpact, periods,
                   coordinatedActivities, whaleEntries, priceStats, sortedPrices,
                   marketCycles, pumpAndDumpEvidence>>

Analyze ==
    \/ Normalize \/ LogTimeRange \/ FoldWallets \/ ScoreWallets \/ RankWallets
    \/ BuildPriceSeries \/ FindPriceChanges \/ FindPumpAndDump
    \/ FindSuspiciousIntervals \/ FindPriceExtrema \/ ComputeMarketImpact \/ SplitPeriods
    \/ FindMarketCycles \/ FindCoordinatedActivities \/ FindWhaleEntries
    \/ GenerateAnalysisReport \/ CreateVolumeChart

Next == ReadRow \/ Analyze

Spec == Init /\ [][Next]_vars

-----------------------------------------------------------------------------
(* The scorer as a function of one wallet profile *)

\* Profiles a fold can end in: buyCount buys, sellCount sells and otherCount rows
\* of another type, seen over duration seconds, with the trade value on one side
Profiles ==
    { [address |-> "w1",
       buys |-> [count |-> b, volume |-> 3 * b, value |-> IF b > 0 THEN v ELSE 0],
       sells |-> [count |-> s, volume |-> 3 * s, value |-> IF b = 0 /\ s > 0 THEN v ELSE 0],
       totalTransactions |-> b + s + o,
       firstSeen |-> 1000,
       lastSeen |-> 1000 + duration,
       netSOLChange |-> net] :
        b \in {0, 1, 9, 10, 11, 12}, s \in {0, 1, 3, 10, 12}, o \in {0, 9},
        v \in {6, 10000, 10001, 100000, 100001, 150000},
        duration \in {0, 3599, 3600, 7200}, net \in {-1, 10, 11, 15} }

ScoreInit ==
    /\ pc = "score"
    /\ data = <<>>
    /\ sortedData = <<>>
    /\ folded = 0
    /\ \E profile \in Profiles :
          /\ profile.totalTransactions >= 1
          /\ profile.totalTransactions = 1 => profile.lastSeen = profile.firstSeen
          /\ walletActivity = <<profile>>
    /\ suspectedManipulators = <<>>
    /\ topSuspiciousWallets = <<>>
    /\ timeIntervals = <<>>
    /\ sortedPriceIntervals = <<>>
    /\ priceChanges = <<>>
    /\ pumpAndDumpPatterns = <<>>
    /\ detailedTimeIntervals = <<>>
    /\ suspiciousActivityIntervals = <<>>
    /\ topWalletsImpact = <<>>
    /\ periods = <<>>
    /\ coordinatedActivities = <<>>
    /\ whaleEntries = <<>>
    /\ priceStats = [max |-> NULL, min |-> NULL]
    /\ sortedPrices = <<>>
    /\ marketCycles = <<>>
    /\ pumpAndDumpEvidence = ""
    /\ volumeChart = [buyData |-> <<>>, sellData |-> <<>>]

ScoreNext == ScoreWallets \/ RankWallets

SpecScore == ScoreInit /\ [][ScoreNext]_vars

-----------------------------------------------------------------------------
(* The pipeline on files of many wallets *)

MaxBatchRows == 24
MaxWallets == 22

\* Row i of a file whose rows go round wallets 1..wallets: the wallet's kind
\* decides side and size of its trades, step scrambles the timestamps
BatchRow(i, wallets, pattern, step) ==
    LET w == ((i - 1) % wallets) + 1
        kind == (w * pattern) % 3
        ts == 100 + ((i * step) % 7) * 100
        address == "w" \o ToString(w)
    IN  IF kind = 0 THEN Row(ts, "TOKEN_BUY", 2, 3, NULL, NULL, address, -1)
        ELSE IF kind = 1 THEN Row(ts, "TOKEN_BUY", 5000, 3, NULL, NULL, address, 0)
        ELSE Row(ts, "TOKEN_SELL", NULL, NULL, 5000, 30, address, 15)

BatchInit ==
    /\ pc = "read"
    /\ \E n \in 0..MaxBatchRows, wallets \in 1..MaxWallets, pattern \in 0..2, step \in {0, 3} :
          data = [i \in 1..n |-> BatchRow(i, wallets, pattern, step)]
    /\ sortedData = <<>>
    /\ folded = 0
    /\ walletActivity = <<>>
    /\ suspectedManipulators = <<>>
    /\ topSuspiciousWallets = <<>>
    /\ timeIntervals = <<>>
    /\ sortedPriceIntervals = <<>>
    /\ priceChanges = <<>>
    /\ pumpAndDumpPatterns = <<>>
    /\ detailedTimeIntervals = <<>>
    /\ suspiciousActivityIntervals = <<>>
    /\ topWalletsImpact = <<>>
    /\ periods = <<>>
    /\ coordinatedActivities = <<>>
    /\ whaleEntries = <<>>
    /\ priceStats = [max |-> NULL, min |-> NULL]
    /\ sortedPrices = <<>>
    /\ marketCycles = <<>>
    /\ pumpAndDumpEvidence = ""
    /\ volumeChart = [buyData |-> <<>>, sellData |-> <<>>]

SpecBatch == BatchInit /\ [][Analyze]_vars

-----------------------------------------------------------------------------
(* The pipeline on files that hold a price history *)

MaxRetailBuys == 20
MaxWhaleBuys == 5

\* A file of one hour of trades that starts at base, latest bucket first:
\*   before (base - 500)     if early is not 0, a whale buy at price early
\*   bucket 1 (base)         one buy at price 10
\*   bucket 2 (base + 600)   retail buys at price 10 and at price 11, the first of
\*                           them at the very start of the bucket if edge; a buy
\*                           without an address if anonymous; a sell of the seller,
\*                           who is the first buyer (r1), another wallet or nobody
\*   bucket 3 (base + 1200)  if gap, a row that is neither buy nor sell
\*   bucket 4 (base + 1800)  a retail buy at price 12 (at the start of the bucket if
\*                           edge) and whale buys of value 12000, 15000, 9000, ...
\*   afterwards              sells of value 1200 at price 6, at the times given
MarketFile(tens, elevens, edge, wallets, anonymous, seller, gap, whaleBuys, whaleWallets, sellTimes, early) ==
    LET MarketBase == 3600
        wallet(prefix, j, n) == prefix \o ToString(((j - 1) % n) + 1)
        amounts == <<1000, 1250, 750>>
        sells == [j \in 1..Len(sellTimes) |->
                     Row(MarketBase + sellTimes[j], "TOKEN_SELL", NULL, NULL, 6, 200, "w1", 15)]
        whales == [j \in 1..whaleBuys |->
                      Row(MarketBase + 1900, "TOKEN_BUY", 12, amounts[((j - 1) % 3) + 1],
                          NULL, NULL, wallet("w", j, whaleWallets), -1)]
        top == <<Row(MarketBase + 1800 + (IF edge THEN 0 ELSE 100), "TOKEN_BUY", 12, 3,
                     NULL, NULL, "r2", -1)>>
        hole == IF gap
                THEN <<Row(MarketBase + 1300, "TOKEN_TRANSFER", NULL, NULL, 2, 3, "r2", 0)>>
                ELSE <<>>
        washSell == IF seller # ""
                    THEN <<Row(MarketBase + 700, "TOKEN_SELL", NULL, NULL, 10, 3, seller, 1)>>
                    ELSE <<>>
        nameless == IF anonymous
                    THEN <<Row(MarketBase + 700, "TOKEN_BUY", 10, 3, NULL, NULL, "", 0)>>
                    ELSE <<>>
        atEleven == [j \in 1..elevens |->
                        Row(MarketBase + 700, "TOKEN_BUY", 11, 3, NULL, NULL, "r1", -1)]
        atTen == [j \in 1..tens |->
                     Row(MarketBase + 600 + (IF edge /\ j = 1 THEN 0 ELSE 100), "TOKEN_BUY",
                         10, 3, NULL, NULL, wallet("r", j, wallets), -1)]
        first == <<Row(MarketBase + 100, "TOKEN_BUY", 10, 3, NULL, NULL, "r1", -1)>>
        before == IF early # 0
                  THEN <<Row(MarketBase - 500, "TOKEN_BUY", early, 2000, NULL, NULL, "w1", -1)>>
                  ELSE <<>>
    IN  sells \o whales \o top \o hole \o washSell \o nameless \o atEleven \o atTen
            \o first \o before

\* the sells after the fourth bucket, in seconds from base: none, one or two in
\* time, both at the last second of the 1800 s that follow the start of the fourth
\* bucket, both one second later, one in time and one two hours after it
SellTimes ==
    { <<>>, <<2500>>, <<2500, 2600>>, <<3600, 3600>>, <<3601, 3601>>, <<2500, 9800>> }

\* the price of the whale buy before the first bucket: none, below 80 % of the
\* price of 10 that the rise starts from, and above
EarlyPrices == {0, 7, 9}

MarketInit ==
    /\ pc = "read"
    /\ \E tens \in {0, 1, 4, 7, MaxRetailBuys}, elevens \in {0, 1}, edge \in BOOLEAN,
          wallets \in {4, 6}, anonymous \in BOOLEAN, seller \in {"", "r1", "s1"},
          gap \in BOOLEAN, whaleBuys \in {0, 1, 3, MaxWhaleBuys}, whaleWallets \in {1, 2},
          sellTimes \in SellTimes, early \in EarlyPrices :
          /\ anonymous => tens = MaxRetailBuys
          /\ gap => seller = ""
          /\ early # 0 => ~anonymous /\ ~gap /\ seller = "" /\ wallets = 4 /\ elevens = 0
          /\ data = MarketFile(tens, elevens, edge, wallets, anonymous, seller, gap,
                               whaleBuys, whaleWallets, sellTimes, early)
    /\ sortedData = <<>>
    /\ folded = 0
    /\ walletActivity = <<>>
    /\ suspectedManipulators = <<>>
    /\ topSuspiciousWallets = <<>>
    /\ timeIntervals = <<>>
    /\ sortedPriceIntervals = <<>>
    /\ priceChanges = <<>>
    /\ pumpAndDumpPatterns = <<>>
    /\ detailedTimeIntervals = <<>>
    /\ suspiciousActivityIntervals = <<>>
    /\ topWalletsImpact = <<>>
    /\ periods = <<>>
    /\ coordinatedActivities = <<>>
    /\ whaleEntries = <<>>
    /\ priceStats = [max |-> NULL, min |-> NULL]
    /\ sortedPrices = <<>>
    /\ marketCycles = <<>>
    /\ pumpAndDumpEvidence = ""
    /\ volumeChart = [buyData |-> <<>>, sellData |-> <<>>]

SpecMarket == MarketInit /\ [][Analyze]_vars

-----------------------------------------------------------------------------
(* The pipeline on files that hold a sequence of market periods *)

\* What a period of the file holds: nothing (last = 0), or a first trade at price
\* 100 and a last trade at price last, both buys, both sells, or a buy and a sell
PeriodShapes ==
    {[last |-> 0, sides |-> "none"]}
        \cup [last : {80, 90, 100, 104, 105, 110, 120}, sides : {"buys", "sells", "both"}]

\* the two trades of period k (0 .. 5) of a file whose periods last 100 s from 600
PeriodRows(k, shape) ==
    LET trade(ts, type, price) ==
            IF type = "TOKEN_BUY" THEN Row(ts, type, price, 3, NULL, NULL, "c1", -1)
            ELSE Row(ts, type, NULL, NULL, price, 3, "c1", 1)
        firstType == IF shape.sides = "sells" THEN "TOKEN_SELL" ELSE "TOKEN_BUY"
        lastType == IF shape.sides = "buys" THEN "TOKEN_BUY" ELSE "TOKEN_SELL"
    IN  IF shape.last = 0 THEN <<>>
        ELSE <<trade(600 + 100 * k + 10, firstType, 100),
               trade(600 + 100 * k + 50, lastType, shape.last)>>

\* A file from 600 to 1200: a buy at its first second, the trades of the second,
\* third and fourth period, and a sell at its last second
CycleFile(second, third, fourth) ==
    <<Row(600, "TOKEN_BUY", 100, 3, NULL, NULL, "c1", -1)>>
        \o PeriodRows(1, second) \o PeriodRows(2, third) \o PeriodRows(3, fourth)
        \o <<Row(1200, "TOKEN_SELL", NULL, NULL, 100, 3, "c1", 1)>>

\* the shapes of the fourth period
LastShapes ==
    {[last |-> 0, sides |-> "none"], [last |-> 80, sides |-> "sells"],
     [last |-> 120, sides |-> "buys"]}

CyclesInit ==
    /\ pc = "read"
    /\ \E second \in PeriodShapes, third \in PeriodShapes, fourth \in LastShapes :
          data = CycleFile(second, third, fourth)
    /\ sortedData = <<>>
    /\ folded = 0
    /\ walletActivity = <<>>
    /\ suspectedManipulators = <<>>
    /\ topSuspiciousWallets = <<>>
    /\ timeIntervals = <<>>
    /\ sortedPriceIntervals = <<>>
    /\ priceChanges = <<>>
    /\ pumpAndDumpPatterns = <<>>
    /\ detailedTimeIntervals = <<>>
    /\ suspiciousActivityIntervals = <<>>
    /\ topWalletsImpact = <<>>
    /\ periods = <<>>
    /\ coordinatedActivities = <<>>
    /\ whaleEntries = <<>>
    /\ priceStats = [max |-> NULL, min |-> NULL]
    /\ sortedPrices = <<>>
    /\ marketCycles = <<>>
    /\ pumpAndDumpEvidence = ""
    /\ volumeChart = [buyData |-> <<>>, sellData |-> <<>>]

SpecCycles == CyclesInit /\ [][Analyze]_vars

-----------------------------------------------------------------------------
(* Properties *)

Normalized == pc \notin {"read", "crashed"} \/ (pc = "crashed" /\ ~NormalizeThrows(data))

\* the script has got past the statement group of the given stages
Past(stages) == pc \notin ({"read", "crashed"} \cup stages)

\* C1: when no valid record survives normalization (empty input, or every row
\* dropped) the pipeline does not fail.
C1_EmptyDatasetDoesNotFail ==
    ProcessedData(data) = <<>> => pc # "crashed"

\* a timestamp pair in non-decreasing order, as JavaScript compares numbers
NonDecreasing(a, b) == a # NAN /\ b # NAN /\ a <= b

\* C2: the normalized sequence is ordered by non-decreasing timestamp and records
\* with equal timestamps keep their relative order of the input.
C2_SortedAndStable ==
    \A i, j \in 1..Len(sortedData) :
        i < j =>
            /\ NonDecreasing(sortedData[i].trade_timestamp, sortedData[j].trade_timestamp)
            /\ (sortedData[i].trade_timestamp = sortedData[j].trade_timestamp
                    => sortedData[i].transaction_signature
                           < sortedData[j].transaction_signature)

\* the amount of the record's own side
SideAmount(r) == IF r.type = "TOKEN_BUY" THEN r.buy_amount ELSE r.sell_amount

\* C3: every normalized record has value = amount * price for the amount and
\* price of its own side, and none lacks that amount or price.
C3_ValueIsAmountTimesPrice ==
    \A i \in 1..Len(sortedData) :
        LET r == sortedData[i]
        IN  /\ r.price # NAN
            /\ SideAmount(r) > 0
            /\ r.transaction_value = SideAmount(r) * r.price

\* what the specification requires of a row: a numeric timestamp, a trade side
\* and an amount for that side
MeetsRequirements(row) ==
    /\ row.trade_timestamp \notin {NULL, BADTS, NAN}
    /\ \/ row.type = "TOKEN_BUY" /\ Truthy(row.buy_amount)
       \/ row.type = "TOKEN_SELL" /\ Truthy(row.sell_amount)

\* C4: the normalizer keeps a row iff it has a numeric timestamp, a trade side
\* and an amount for that same side.
C4_KeptIffRequirementsMet ==
    Normalized =>
        {sortedData[i].transaction_signature : i \in 1..Len(sortedData)}
            = {k \in 1..Len(data) : MeetsRequirements(data[k])}

\* the entries of an address -> profile mapping, whatever their order
Mapping(entries) == {entries[i] : i \in 1..Len(entries)}

\* C6: wallet aggregation is permutation-invariant: every ordering of the
\* normalized records yields the same address -> profile mapping.
C6_FoldIsPermutationInvariant ==
    Past({"timeRange", "wallets"}) =>
        \A p \in Permutations(1..Len(sortedData)) :
            Mapping(WalletActivity([i \in 1..Len(sortedData) |-> sortedData[p[i]]]))
                = Mapping(walletActivity)

\* a wallet seen at two different times, the later record first in some ordering
C6_Witness ==
    /\ Past({"timeRange", "wallets"})
    /\ \E i \in 1..Len(walletActivity) :
           /\ walletActivity[i].firstSeen < walletActivity[i].lastSeen
           /\ walletActivity[i].totalTransactions >= 2

\* the normalized records of one address and side
RecordsOf(address, type) ==
    SelectSeq(sortedData, LAMBDA r : r.trader_wallet_address = address /\ r.type = type)

TimestampsOf(address) ==
    {sortedData[i].trade_timestamp :
        i \in {k \in 1..Len(sortedData) : sortedData[k].trader_wallet_address = address}}

\* C7: a profile exists for an address iff a normalized record carries it, and its
\* counts, sums, first/last seen and net change are those of the address's records.
C7_ProfilesMatchRecords ==
    Past({"timeRange", "wallets"}) =>
        /\ {walletActivity[i].address : i \in 1..Len(walletActivity)}
              = {sortedData[i].trader_wallet_address : i \in 1..Len(sortedData)} \ {""}
        /\ \A i, j \in 1..Len(walletActivity) :
              walletActivity[i].address = walletActivity[j].address => i = j
        /\ \A i \in 1..Len(walletActivity) :
              LET w == walletActivity[i]
                  b == RecordsOf(w.address, "TOKEN_BUY")
                  s == RecordsOf(w.address, "TOKEN_SELL")
                  all == SelectSeq(sortedData, LAMBDA r : r.trader_wallet_address = w.address)
              IN  /\ w.buys.count = Len(b)
                  /\ w.buys.volume = Sum([k \in 1..Len(b) |-> b[k].buy_amount])
                  /\ w.buys.value = Sum([k \in 1..Len(b) |-> b[k].transaction_value])
                  /\ w.sells.count = Len(s)
                  /\ w.sells.volume = Sum([k \in 1..Len(s) |-> s[k].sell_amount])
                  /\ w.sells.value = Sum([k \in 1..Len(s) |-> s[k].transaction_value])
                  /\ \A t \in TimestampsOf(w.address) : w.firstSeen <= t /\ t <= w.lastSeen
                  /\ w.firstSeen \in TimestampsOf(w.address)
                  /\ w.lastSeen \in TimestampsOf(w.address)
                  /\ w.netSOLChange
                        = Sum([k \in 1..Len(all) |-> all[k].net_sol_balance_change])

\* a wallet with both a buy and a sell, beside a record without an address
C7_Witness ==
    /\ Past({"timeRange", "wallets"})
    /\ \E i \in 1..Len(walletActivity) :
           walletActivity[i].buys.count > 0 /\ walletActivity[i].sells.count > 0
    /\ \E i \in 1..Len(sortedData) : sortedData[i].trader_wallet_address = ""

IsNaN(q) == q = NaN

\* C5: no ratio, frequency or percentage the core derives is NaN, whatever its
\* denominator.
C5_NoRatioIsNaN ==
    /\ \A i \in 1..Len(suspectedManipulators) :
          /\ ~IsNaN(suspectedManipulators[i].buyToSellRatio)
          /\ ~IsNaN(suspectedManipulators[i].transactionFrequency)
    /\ \A i \in 1..Len(suspiciousActivityIntervals) :
          ~IsNaN(suspiciousActivityIntervals[i].buyToSellRatio)
    /\ \A i \in 1..Len(periods) : ~IsNaN(periods[i].buyToSellRatio)
    /\ \A i \in 1..Len(topWalletsImpact) : ~IsNaN(topWalletsImpact[i].marketImpact)
    /\ \A i \in 1..Len(whaleEntries) : ~IsNaN(whaleEntries[i].percentOfTotalSupply)

\* the convention of the specification; it leaves buys = 0 with sells > 0 open
ConventionHolds(buyCount, sellCount, ratio) ==
    /\ buyCount > 0 /\ sellCount > 0 =>
          ratio.d > 0 /\ ratio.n * sellCount = buyCount * ratio.d
    /\ buyCount > 0 /\ sellCount = 0 => ratio = Infinity
    /\ buyCount = 0 /\ sellCount = 0 => ratio.d > 0 /\ ratio.n = 0

\* C8: the buy-to-sell ratio of a wallet, of a 300 s bucket and of a market period
\* follow the one convention and agree on every pair of counts.
C8_OneRatioConvention ==
    \A i \in 1..Len(suspectedManipulators) :
        LET wallet == suspectedManipulators[i]
            b == wallet.buys.count
            s == wallet.sells.count
        IN  /\ ConventionHolds(b, s, wallet.buyToSellRatio)
            /\ ConventionHolds(b, s, IntervalBuyToSellRatio(b, s))
            /\ ConventionHolds(b, s, PeriodBuyToSellRatio(b, s))
            /\ IntervalBuyToSellRatio(b, s) = wallet.buyToSellRatio
            /\ PeriodBuyToSellRatio(b, s) = wallet.buyToSellRatio

\* the three examples: 12/0, 0/0 and 9/3
C8_Witness ==
    \E i \in 1..Len(suspectedManipulators) :
        LET wallet == suspectedManipulators[i]
        IN  /\ wallet.buys.count = 9 /\ wallet.sells.count = 3
            /\ wallet.buyToSellRatio = [n |-> 3, d |-> 1]
            /\ IntervalBuyToSellRatio(12, 0) = Infinity
            /\ PeriodBuyToSellRatio(0, 0) = [n |-> 0, d |-> 1]

\* the five increments, from the counts, sums and times of the profile
ValueIncrement(w) ==
    IF w.buys.value + w.sells.value > 100000 THEN 5
    ELSE IF w.buys.value + w.sells.value > 10000 THEN 3 ELSE 0

RatioIncrement(w) ==
    IF w.sells.count = 0 THEN 3
    ELSE IF w.buys.count > 10 * w.sells.count \/ 10 * w.buys.count < w.sells.count
    THEN 3 ELSE 0

FrequencyIncrement(w) ==
    LET seconds == w.lastSeen - w.firstSeen
        above(k) == IF seconds > 0 THEN w.totalTransactions * 3600 > k * seconds
                    ELSE w.totalTransactions > k
    IN  IF above(10) THEN 3 ELSE IF above(5) THEN 2 ELSE 0

BurstIncrement(w) ==
    IF w.lastSeen - w.firstSeen < 3600 /\ w.totalTransactions > 20 THEN 4 ELSE 0

ProfitIncrement(w) == IF w.netSOLChange > 10 THEN 3 ELSE 0

\* C9: the suspicion score of every wallet is the sum of the five increments of
\* its final profile.
C9_ScoreIsSumOfIncrements ==
    Past({"timeRange", "wallets", "score"}) =>
        /\ Len(suspectedManipulators) = Len(walletActivity)
        /\ \A i \in 1..Len(walletActivity) :
              \E k \in 1..Len(suspectedManipulators) :
                  /\ suspectedManipulators[k].address = walletActivity[i].address
                  /\ suspectedManipulators[k].suspiciousScore
                        = ValueIncrement(walletActivity[i]) + RatioIncrement(walletActivity[i])
                          + FrequencyIncrement(walletActivity[i])
                          + BurstIncrement(walletActivity[i])
                          + ProfitIncrement(walletActivity[i])

\* the example: total value 150000, all sells, 12 transactions over 2 hours, net
\* change 15, scored 13
C9_Witness ==
    \E i \in 1..Len(suspectedManipulators) :
        LET wallet == suspectedManipulators[i]
        IN  /\ wallet.totalValue = 150000
            /\ wallet.buys.count = 0 /\ wallet.sells.count = 12
            /\ wallet.buyToSellRatio = [n |-> 0, d |-> 1]
            /\ wallet.transactionCount = 12
            /\ wallet.timeActiveHours = [n |-> 2, d |-> 1]
            /\ wallet.netSOLChange = 15
            /\ wallet.suspiciousScore = 13

\* the position in the sorted trade sequence at which an address first occurs
FirstEncounter(address) ==
    CHOOSE i \in 1..Len(sortedData) :
        /\ sortedData[i].trader_wallet_address = address
        /\ \A k \in 1..(i - 1) : sortedData[k].trader_wallet_address # address

\* C10: the list holds min(20, number of wallets) profiles in non-increasing score
\* order, equal scores in order of first encounter, and no wallet left out scores
\* higher than a wallet of the list.
C10_TopTwentyRanking ==
    Past({"timeRange", "wallets", "score", "rank"}) =>
        LET top == topSuspiciousWallets
            listed == {top[i].address : i \in 1..Len(top)}
        IN  /\ Len(top) = IF Len(walletActivity) < 20 THEN Len(walletActivity) ELSE 20
            /\ \A i, j \in 1..Len(top) : i < j =>
                  /\ top[i].address # top[j].address
                  /\ top[i].suspiciousScore >= top[j].suspiciousScore
                  /\ top[i].suspiciousScore = top[j].suspiciousScore =>
                        FirstEncounter(top[i].address) < FirstEncounter(top[j].address)
            /\ \A i \in 1..Len(top) :
                  \E k \in 1..Len(walletActivity) :
                      /\ walletActivity[k].address = top[i].address
                      /\ top[i].suspiciousScore = SuspiciousScore(Manipulator(walletActivity[k]))
            /\ \A k \in 1..Len(walletActivity) :
                  walletActivity[k].address \notin listed =>
                      \A i \in 1..Len(top) :
                          SuspiciousScore(Manipulator(walletActivity[k]))
                              <= top[i].suspiciousScore

\* more than 20 wallets, with ties inside the list and across its end, first met
\* in an order that is not the order of the file
C10_Witness ==
    /\ Past({"timeRange", "wallets", "score", "rank"})
    /\ Len(walletActivity) > 20
    /\ Len(topSuspiciousWallets) = 20
    /\ topSuspiciousWallets[1].suspiciousScore > topSuspiciousWallets[20].suspiciousScore
    /\ topSuspiciousWallets[19].suspiciousScore = topSuspiciousWallets[20].suspiciousScore
    /\ \E k \in 1..Len(suspectedManipulators) :
          k > 20 /\ suspectedManipulators[k].suspiciousScore
                      = topSuspiciousWallets[20].suspiciousScore
    /\ \E i, j \in 1..Len(sortedData) :
          i < j /\ sortedData[i].transaction_signature > sortedData[j].transaction_signature

-----------------------------------------------------------------------------
(* Properties of the interval, price and pattern stages *)

Stages ==
    <<"read", "timeRange", "wallets", "score", "rank", "prices", "priceChanges", "pump",
      "intervals", "extrema", "impact", "periods", "cycles", "coordinated", "whales",
      "report", "charts", "done">>

StageIndex(stage) == CHOOSE k \in 1..Len(Stages) : Stages[k] = stage

\* the statement group of the stage has run
After(stage) == pc # "crashed" /\ StageIndex(pc) > StageIndex(stage)

\* the buckets partition the normalized records by floor(timestamp / W) * W
IsPartition(buckets, W) ==
    /\ \A k \in 1..Len(buckets) :
          /\ buckets[k].transactions # <<>>
          /\ \A m \in 1..Len(buckets[k].transactions) :
                buckets[k].timestamp
                    = (buckets[k].transactions[m].trade_timestamp \div W) * W
          /\ {buckets[k].transactions[m] : m \in 1..Len(buckets[k].transactions)}
                = {sortedData[i] : i \in {j \in 1..Len(sortedData) :
                       /\ buckets[k].timestamp <= sortedData[j].trade_timestamp
                       /\ sortedData[j].trade_timestamp < buckets[k].timestamp + W}}
    /\ \A i \in 1..Len(sortedData) :
          Cardinality({k \in 1..Len(buckets) :
                          \E m \in 1..Len(buckets[k].transactions) :
                              buckets[k].transactions[m] = sortedData[i]}) = 1
    /\ Sum([k \in 1..Len(buckets) |-> Len(buckets[k].transactions)]) = Len(sortedData)

\* C11: for W = 600 and W = 300 the buckets partition the normalized sequence:
\* each record lies in exactly one bucket, keyed floor(timestamp / W) * W, a bucket
\* holds exactly the records of [key, key + W), none is empty and the bucket
\* counts sum to the number of records.
C11_BucketsPartitionRecords ==
    /\ After("prices") => IsPartition(timeIntervals, 600)
    /\ After("intervals") => IsPartition(detailedTimeIntervals, 300)

\* records at 100 and 400 share a 600 s bucket and fall into two 300 s buckets,
\* beside a record in a later bucket
C11_Witness ==
    /\ After("intervals")
    /\ Len(timeIntervals) = 2
    /\ Len(detailedTimeIntervals) = 3
    /\ Len(timeIntervals[1].transactions) = 2
    /\ timeIntervals[2].timestamp = 3600
    /\ detailedTimeIntervals[2].timestamp = 300

\* |curr - prev| / prev * 100 > a for two positive prices
ChangeAbove(prev, curr, a) ==
    Abs(curr.n * prev.d - prev.n * curr.d) * 100 > a * prev.n * curr.d

\* the events that start at the point of the given timestamp
EventsFrom(timestamp) ==
    {k \in 1..Len(priceChanges) : priceChanges[k].startTimestamp = timestamp}

\* C12: for consecutive points (prev, curr) of the price series, with change =
\* (curr - prev) / prev * 100, an event is emitted iff |change| > 5 and it is
\* flagged significant iff |change| > 10.
C12_PriceChangeEvents ==
    After("priceChanges") =>
        /\ \A i \in 1..(Len(sortedPriceIntervals) - 1) :
              LET prev == sortedPriceIntervals[i]
                  curr == sortedPriceIntervals[i + 1]
              IN  /\ Cardinality(EventsFrom(prev.timestamp))
                        = IF ChangeAbove(prev.price, curr.price, 5) THEN 1 ELSE 0
                  /\ \A k \in EventsFrom(prev.timestamp) :
                        /\ priceChanges[k].endTimestamp = curr.timestamp
                        /\ priceChanges[k].percentChange.d > 0
                        /\ priceChanges[k].percentChange.n * prev.price.n * curr.price.d
                              = (curr.price.n * prev.price.d - prev.price.n * curr.price.d)
                                    * 100 * priceChanges[k].percentChange.d
                        /\ priceChanges[k].isSignificant
                              <=> ChangeAbove(prev.price, curr.price, 10)
        /\ \A k \in 1..Len(priceChanges) :
              \E i \in 1..(Len(sortedPriceIntervals) - 1) :
                  sortedPriceIntervals[i].timestamp = priceChanges[k].startTimestamp

\* the series [10, 10.2, 12, 6]: two events, 10.2 -> 12 and 12 -> 6, both flagged
C12_Witness ==
    /\ After("priceChanges")
    /\ [i \in 1..Len(sortedPriceIntervals) |-> sortedPriceIntervals[i].price]
          = <<[n |-> 10, d |-> 1], [n |-> 51, d |-> 5], [n |-> 12, d |-> 1],
              [n |-> 6, d |-> 1]>>
    /\ Len(priceChanges) = 2
    /\ priceChanges[1].startPrice = [n |-> 51, d |-> 5]
    /\ priceChanges[1].endPrice = [n |-> 12, d |-> 1]
    /\ priceChanges[1].isSignificant
    /\ priceChanges[2].startPrice = [n |-> 12, d |-> 1]
    /\ priceChanges[2].endPrice = [n |-> 6, d |-> 1]
    /\ priceChanges[2].percentChange = [n |-> -50, d |-> 1]
    /\ priceChanges[2].isSignificant

\* a change of exactly 10 % (10 -> 11) emits an event that is not flagged
C12_BoundaryWitness ==
    /\ After("priceChanges")
    /\ \E i \in 1..(Len(sortedPriceIntervals) - 1) :
          /\ sortedPriceIntervals[i].price = [n |-> 10, d |-> 1]
          /\ sortedPriceIntervals[i + 1].price = [n |-> 11, d |-> 1]
          /\ \E k \in EventsFrom(sortedPriceIntervals[i].timestamp) :
                ~priceChanges[k].isSignificant

\* the records of one side in the 600 s bucket of the key that carry the side's price
PricedRecords(key, type, field) ==
    SelectSeq(sortedData, LAMBDA r : /\ r.type = type
                                     /\ Truthy(r[field])
                                     /\ key <= r.trade_timestamp
                                     /\ r.trade_timestamp < key + 600)

HasDerivablePrice(key) ==
    Len(PricedRecords(key, "TOKEN_BUY", "buy_price")) > 0
        \/ Len(PricedRecords(key, "TOKEN_SELL", "sell_price")) > 0

\* the price is the mean buy price of the bucket, else its mean sell price
IsDerivedPrice(key, price) ==
    LET buys == PricedRecords(key, "TOKEN_BUY", "buy_price")
        sells == PricedRecords(key, "TOKEN_SELL", "sell_price")
    IN  /\ price.d > 0
        /\ IF Len(buys) > 0
           THEN price.n * Len(buys) = price.d * Sum([k \in 1..Len(buys) |-> buys[k].buy_price])
           ELSE price.n * Len(sells)
                    = price.d * Sum([k \in 1..Len(sells) |-> sells[k].sell_price])

\* C13: the price series holds exactly the 600 s buckets with a derivable price
\* (mean buy price, else mean sell price) in strictly increasing timestamp; every
\* event pairs two consecutive points, so the events are in strictly increasing
\* start, each has start < end and no event ends after the start of the next.
C13_PriceSeriesAndEventOrder ==
    After("priceChanges") =>
        LET points == sortedPriceIntervals
            keys == {(sortedData[i].trade_timestamp \div 600) * 600 : i \in 1..Len(sortedData)}
        IN  /\ {points[i].timestamp : i \in 1..Len(points)}
                  = {key \in keys : HasDerivablePrice(key)}
            /\ \A i \in 1..Len(points) : IsDerivedPrice(points[i].timestamp, points[i].price)
            /\ \A i \in 1..(Len(points) - 1) : points[i].timestamp < points[i + 1].timestamp
            /\ \A k \in 1..Len(priceChanges) :
                  /\ priceChanges[k].startTimestamp < priceChanges[k].endTimestamp
                  /\ \E i \in 1..(Len(points) - 1) :
                        /\ points[i].timestamp = priceChanges[k].startTimestamp
                        /\ points[i + 1].timestamp = priceChanges[k].endTimestamp
            /\ \A k \in 1..(Len(priceChanges) - 1) :
                  /\ priceChanges[k].startTimestamp < priceChanges[k + 1].startTimestamp
                  /\ priceChanges[k].endTimestamp <= priceChanges[k + 1].startTimestamp

\* a bucket without a price lies between two points that an event pairs, a point
\* takes its price from sells, and two events follow each other
C13_Witness ==
    /\ After("priceChanges")
    /\ Len(timeIntervals) > Len(sortedPriceIntervals)
    /\ \E k \in 1..Len(priceChanges) :
          /\ priceChanges[k].endTimestamp - priceChanges[k].startTimestamp = 1200
          /\ ~HasDerivablePrice(priceChanges[k].startTimestamp + 600)
    /\ \E i \in 1..Len(sortedPriceIntervals) :
          ~TruthyNumber(sortedPriceIntervals[i].avgBuyPrice)
    /\ Len(priceChanges) >= 2

\* the retail buys (0 < value <= 100) with a timestamp from lo to hi
RetailBuys(lo, hi) ==
    {i \in 1..Len(sortedData) :
        /\ sortedData[i].type = "TOKEN_BUY"
        /\ lo <= sortedData[i].trade_timestamp
        /\ sortedData[i].trade_timestamp <= hi
        /\ 0 < sortedData[i].transaction_value
        /\ sortedData[i].transaction_value <= 100}

\* the sells of value >= 1000 in (end, end + 1800]
LargeSellsAfter(end) ==
    {i \in 1..Len(sortedData) :
        /\ sortedData[i].type = "TOKEN_SELL"
        /\ end < sortedData[i].trade_timestamp
        /\ sortedData[i].trade_timestamp <= end + 1800
        /\ sortedData[i].transaction_value >= 1000}

\* C14: a pump-and-dump candidate is emitted for a price-change event iff its
\* change is above +10 %, more than 5 retail buys are counted for its window and
\* at least one sell of value >= 1000 falls in (eventEnd, eventEnd + 1800].
C14_PumpAndDumpCandidates ==
    After("pump") =>
        LET confirmed == {k \in 1..Len(priceChanges) :
                /\ priceChanges[k].percentChange.n > 10 * priceChanges[k].percentChange.d
                /\ Cardinality(RetailBuys(priceChanges[k].startTimestamp,
                                           priceChanges[k].endTimestamp)) > 5
                /\ LargeSellsAfter(priceChanges[k].endTimestamp) # {}}
        IN  /\ Len(pumpAndDumpPatterns) = Cardinality(confirmed)
            /\ {pumpAndDumpPatterns[j].pump : j \in 1..Len(pumpAndDumpPatterns)}
                  = {priceChanges[k] : k \in confirmed}
            /\ \A j \in 1..Len(pumpAndDumpPatterns) :
                  pumpAndDumpPatterns[j].whaleSellsCount
                      = Cardinality(LargeSellsAfter(pumpAndDumpPatterns[j].pump.endTimestamp))

\* 8 retail buys and 2 sells of value 1200 in the 1800 s after the rise: confirmed
C14_Witness ==
    /\ After("pump")
    /\ \E j \in 1..Len(pumpAndDumpPatterns) :
          /\ pumpAndDumpPatterns[j].retailBuysCount = 8
          /\ pumpAndDumpPatterns[j].whaleSellsCount = 2
          /\ pumpAndDumpPatterns[j].whaleSellsValue = 2400

\* C15: the retail buys counted for a pump event are exactly the buys of value in
\* (0, 100] with eventStart < timestamp < eventEnd; a buy at exactly eventStart or
\* eventEnd is not counted.
C15_RetailBuysStrictlyInside ==
    \A j \in 1..Len(pumpAndDumpPatterns) :
        LET inside == RetailBuys(pumpAndDumpPatterns[j].pump.startTimestamp + 1,
                                 pumpAndDumpPatterns[j].pump.endTimestamp - 1)
        IN  pumpAndDumpPatterns[j].retailBuysCount = Cardinality(inside)

\* C15 as amended: the retail buys counted for a pump event are exactly the buys
\* of value in (0, 100] with eventStart <= timestamp <= eventEnd; a buy at exactly
\* eventStart or eventEnd is counted.
C15_RetailBuysInClosedWindow ==
    \A j \in 1..Len(pumpAndDumpPatterns) :
        LET counted == SelectSeq(sortedData, LAMBDA r :
                           /\ r.type = "TOKEN_BUY"
                           /\ r.transaction_value > 0
                           /\ r.transaction_value <= 100
                           /\ pumpAndDumpPatterns[j].pump.startTimestamp <= r.trade_timestamp
                           /\ r.trade_timestamp <= pumpAndDumpPatterns[j].pump.endTimestamp)
        IN  /\ pumpAndDumpPatterns[j].retailBuysCount = Len(counted)
            /\ pumpAndDumpPatterns[j].retailBuysValue
                  = Sum([k \in 1..Len(counted) |-> counted[k].transaction_value])

\* a confirmed pump with a retail buy at exactly its start and one at exactly its
\* end, both counted, and a buy after its end that is not
C15_Witness ==
    \E j \in 1..Len(pumpAndDumpPatterns) :
        LET pump == pumpAndDumpPatterns[j].pump
        IN  /\ RetailBuys(pump.startTimestamp, pump.startTimestamp) # {}
            /\ RetailBuys(pump.endTimestamp, pump.endTimestamp) # {}
            /\ pumpAndDumpPatterns[j].retailBuysCount
                  = Cardinality(RetailBuys(pump.startTimestamp + 1, pump.endTimestamp - 1)) + 2
            /\ \E i \in 1..Len(sortedData) :
                  /\ sortedData[i].type = "TOKEN_BUY"
                  /\ sortedData[i].trade_timestamp > pump.endTimestamp

\* the records of the 300 s bucket of the key
InBucket(key) ==
    {i \in 1..Len(sortedData) :
        key <= sortedData[i].trade_timestamp /\ sortedData[i].trade_timestamp < key + 300}

\* the four increments of a 300 s bucket, from its records
CrowdingIncrement(key) ==
    IF Cardinality(InBucket(key)) > 20
       /\ Cardinality({sortedData[i].trader_wallet_address : i \in InBucket(key)}) < 5
    THEN 3 ELSE 0

WashIncrement(key) ==
    2 * Cardinality({a \in {sortedData[i].trader_wallet_address : i \in InBucket(key)} \ {""} :
            /\ \E i \in InBucket(key) : /\ sortedData[i].trader_wallet_address = a
                                         /\ sortedData[i].type = "TOKEN_BUY"
            /\ \E i \in InBucket(key) : /\ sortedData[i].trader_wallet_address = a
                                         /\ sortedData[i].type = "TOKEN_SELL"})

SkewIncrement(key) ==
    LET b == Cardinality({i \in InBucket(key) : sortedData[i].type = "TOKEN_BUY"})
        s == Cardinality({i \in InBucket(key) : sortedData[i].type = "TOKEN_SELL"})
    IN  IF s = 0 \/ b > 10 * s \/ 10 * b < s THEN 2 ELSE 0

WhaleIncrement(key) ==
    IF Cardinality({i \in InBucket(key) : sortedData[i].transaction_value >= 10000}) > 3
    THEN 3 ELSE 0

IntervalScore(key) ==
    CrowdingIncrement(key) + WashIncrement(key) + SkewIncrement(key) + WhaleIncrement(key)

\* C16: the score of a 300 s bucket is (3 if transactions > 20 and unique wallets
\* < 5) + 2 * (wallets with a buy and a sell in the bucket) + (2 if the buy-to-sell
\* ratio is > 10 or < 0.1) + (3 if more than 3 transactions have value >= 10000);
\* the list holds exactly the buckets with score > 0, in non-increasing score order.
C16_IntervalScore ==
    After("intervals") =>
        LET listed == suspiciousActivityIntervals
            keys == {(sortedData[i].trade_timestamp \div 300) * 300 : i \in 1..Len(sortedData)}
        IN  /\ {listed[j].timestamp : j \in 1..Len(listed)}
                  = {key \in keys : IntervalScore(key) > 0}
            /\ Len(listed) = Cardinality({key \in keys : IntervalScore(key) > 0})
            /\ \A j \in 1..Len(listed) :
                  listed[j].suspiciousScore = IntervalScore(listed[j].timestamp)
            /\ \A j \in 1..(Len(listed) - 1) :
                  listed[j].suspiciousScore >= listed[j + 1].suspiciousScore

\* a bucket of more than 20 transactions by 4 wallets with a wash trader, scored
\* 3 + 2 + 2, ahead of a bucket with 4 whale buys, scored 2 + 3
C16_Witness ==
    /\ After("intervals")
    /\ Len(suspiciousActivityIntervals) >= 2
    /\ suspiciousActivityIntervals[1].suspiciousScore = 7
    /\ suspiciousActivityIntervals[1].totalTransactions > 20
    /\ suspiciousActivityIntervals[1].washTradingCount = 1
    /\ suspiciousActivityIntervals[2].suspiciousScore = 5
    /\ suspiciousActivityIntervals[2].whaleTransactionsCount = 4

\* more than 20 transactions by 4 wallets and a record without an address: the
\* addresses of the bucket have 5 distinct values and the bucket scores no 3
C16_AnonymousWitness ==
    /\ After("intervals")
    /\ \E k \in 1..Len(detailedTimeIntervals) :
          LET key == detailedTimeIntervals[k].timestamp
          IN  /\ Cardinality(InBucket(key)) > 20
              /\ {sortedData[i].trader_wallet_address : i \in InBucket(key)}
                    = {"", "r1", "r2", "r3", "r4"}
              /\ CrowdingIncrement(key) = 0

\* a bucket with buys and a sell of different wallets scores 0 and is not listed
C16_UnlistedWitness ==
    /\ After("intervals")
    /\ \E k \in 1..Len(detailedTimeIntervals) :
          /\ IntervalScore(detailedTimeIntervals[k].timestamp) = 0
          /\ \A j \in 1..Len(suspiciousActivityIntervals) :
                suspiciousActivityIntervals[j].timestamp # detailedTimeIntervals[k].timestamp

\* the wallets with a transaction of value >= 10000 in the 300 s bucket of the key
WhaleWallets(key) ==
    {sortedData[i].trader_wallet_address :
        i \in {j \in InBucket(key) : sortedData[j].transaction_value >= 10000}}

\* C17: the coordinated-activities list is exactly the set of suspicious 300 s
\* buckets with score >= 5 and at least 2 distinct wallets that made a transaction
\* of value >= 10000 in the bucket; a bucket whose whale transactions all come from
\* one wallet is never listed.
C17_CoordinatedNeedsTwoWhaleWallets ==
    After("coordinated") =>
        {coordinatedActivities[j].timestamp : j \in 1..Len(coordinatedActivities)}
            = {suspiciousActivityIntervals[j].timestamp :
                  j \in {k \in 1..Len(suspiciousActivityIntervals) :
                      /\ suspiciousActivityIntervals[k].suspiciousScore >= 5
                      /\ Cardinality(WhaleWallets(suspiciousActivityIntervals[k].timestamp))
                            >= 2}}

\* the buys of value >= 10000 in the hour
WhaleBuys(hour) ==
    SelectSeq(sortedData, LAMBDA r : /\ r.type = "TOKEN_BUY"
                                     /\ r.transaction_value >= 10000
                                     /\ r.trade_timestamp \div 3600 = hour)

\* the hours with at least two such buys, in ascending order
WhaleHours ==
    Ascending({hour \in {sortedData[i].trade_timestamp \div 3600 : i \in 1..Len(sortedData)} :
                  Len(WhaleBuys(hour)) >= 2})

\* C18: a whale entry is emitted for an hour bucket iff the bucket holds at least
\* 2 buys of value >= 10000; its whaleCount is the number of distinct wallets among
\* them, its volume the sum of their buy amounts and its percentage 100 * volume /
\* (sum of all buy and sell amounts of the dataset), which lies in [0, 100].
C18_WhaleEntries ==
    After("whales") =>
        LET total == Sum([i \in 1..Len(sortedData) |->
                             sortedData[i].buy_amount + sortedData[i].sell_amount])
        IN  /\ Len(whaleEntries) = Len(WhaleHours)
            /\ \A k \in 1..Len(whaleEntries) :
                  LET entry == whaleEntries[k]
                      buys == WhaleBuys(WhaleHours[k])
                      volume == Sum([i \in 1..Len(buys) |-> buys[i].buy_amount])
                  IN  /\ entry.transactions = Len(buys)
                      /\ entry.whaleCount
                            = Cardinality({buys[i].trader_wallet_address : i \in 1..Len(buys)})
                      /\ entry.totalBuyVolume = volume
                      /\ entry.percentOfTotalSupply.d > 0
                      /\ \E scale \in 1..total :
                            /\ total = scale * entry.percentOfTotalSupply.d
                            /\ 100 * volume = scale * entry.percentOfTotalSupply.n
                      /\ 0 <= entry.percentOfTotalSupply.n
                      /\ entry.percentOfTotalSupply.n <= 100 * entry.percentOfTotalSupply.d

\* buys of value 12000, 15000 and 9000 by 2 wallets in one hour, beside sells: an
\* entry of the two qualifying buys with whaleCount 2
C18_Witness ==
    /\ After("whales")
    /\ Len(whaleEntries) = 1
    /\ whaleEntries[1].whaleCount = 2
    /\ whaleEntries[1].transactions = 2
    /\ whaleEntries[1].totalBuyVolume = 2250
    /\ {sortedData[i].transaction_value :
            i \in {j \in 1..Len(sortedData) : sortedData[j].transaction_value >= 9000}}
          = {9000, 12000, 15000}
    /\ \E i \in 1..Len(sortedData) : sortedData[i].type = "TOKEN_SELL"

\* one qualifying buy in the hour, and no entry
C18_SingleBuyWitness ==
    /\ After("whales")
    /\ whaleEntries = <<>>
    /\ \E i \in 1..Len(sortedData) : Len(WhaleBuys(sortedData[i].trade_timestamp \div 3600)) = 1

\* C19: the hourly grouping of the whale entries is the bucketing of the 300 s and
\* 600 s series with W = 3600: the timestamp of an entry is floor(t / 3600) * 3600
\* for the trades t it contains, the epoch second at which its hour starts.
C19_HourlyKeyIsHourStart ==
    After("whales") =>
        \A k \in 1..Len(whaleEntries) :
            whaleEntries[k].timestamp = WhaleHours[k] * 3600

\* C20: the six market periods have equal duration and span the observed range
\* from the earliest to the latest timestamp: every normalized record, those at
\* the latest timestamp included, falls in exactly one period and the period
\* transaction counts sum to the number of normalized records.
C20_PeriodsCoverAllRecords ==
    After("periods") =>
        /\ \A k \in 1..6 :
              periods[k].endTime - periods[k].startTime
                  = periods[1].endTime - periods[1].startTime
        /\ periods[1].startTime = sortedData[1].trade_timestamp
        /\ periods[6].endTime = sortedData[Len(sortedData)].trade_timestamp
        /\ \A i \in 1..Len(sortedData) :
              Cardinality({k \in 1..6 :
                  /\ periods[k].startTime <= sortedData[i].trade_timestamp
                  /\ \/ sortedData[i].trade_timestamp < periods[k].endTime
                     \/ k = 6 /\ sortedData[i].trade_timestamp = periods[k].endTime}) = 1
        /\ Sum([k \in 1..6 |-> periods[k].transactionCount]) = Len(sortedData)

-----------------------------------------------------------------------------
(* Properties of the cycles, the report and the charts *)

\* a transition of the type is listed for the pair of periods (i, i + 1)
Emitted(i, type) ==
    \E k \in 1..Len(marketCycles) :
        marketCycles[k].startPeriod = i /\ marketCycles[k].endPeriod = i + 1
            /\ marketCycles[k].type = type

\* the period has a price change: a first and a last price were observed
HasPriceChange(period) == period.priceChange.d > 0

\* C21: for every pair of adjacent periods with defined price changes,
\* accumulation-to-markup is emitted iff change[i] < 5 and change[i+1] > 10,
\* markup-to-distribution iff change[i] > 10 and change[i+1] < 5 and ratio[i+1] < 1,
\* distribution-to-markdown iff change[i] < 5 and ratio[i] < 1 and change[i+1] < -10;
\* a change of exactly 0 counts as < 5.
C21_TransitionRules ==
    After("cycles") =>
        \A i \in 1..5 :
            LET current == periods[i]
                next == periods[i + 1]
                change(p) == p.priceChange.n
                scale(p) == p.priceChange.d
                ratioBelowOne(p) == p.buyToSellRatio.d > 0
                                        /\ p.buyToSellRatio.n < p.buyToSellRatio.d
            IN  HasPriceChange(current) /\ HasPriceChange(next) =>
                    /\ Emitted(i, "accumulation_to_markup")
                          <=> /\ change(current) < 5 * scale(current)
                              /\ change(next) > 10 * scale(next)
                    /\ Emitted(i, "markup_to_distribution")
                          <=> /\ change(current) > 10 * scale(current)
                              /\ change(next) < 5 * scale(next)
                              /\ ratioBelowOne(next)
                    /\ Emitted(i, "distribution_to_markdown")
                          <=> /\ change(current) < 5 * scale(current)
                              /\ ratioBelowOne(current)
                              /\ change(next) < -10 * scale(next)

\* the transitions listed for the pair of periods (i, i + 1)
TransitionsOf(i) == {k \in 1..Len(marketCycles) : marketCycles[k].startPeriod = i}

\* C25 as stated: the three rules are evaluated independently for each adjacent
\* pair, so there are inputs for which one pair (i, i + 1) yields two or more of
\* the three transitions; the inputs are the files of periods, of which the run
\* reads one.
C25_SomePairYieldsTwoTransitions ==
    pc = "read" =>
        \E second \in PeriodShapes, third \in PeriodShapes, fourth \in LastShapes :
            LET ps == Periods(SortByTimestamp(ProcessedData(CycleFile(second, third, fourth))))
            IN  \E i \in 1..5 : Len(CyclesOfPair(ps[i], ps[i + 1])) >= 2

\* C25, amended: the three rules are evaluated independently for each adjacent
\* pair, but their conditions exclude one another, so every pair (i, i + 1) yields
\* at most one transition.
C25_AtMostOneTransitionPerPair ==
    After("cycles") =>
        \A i \in 1..5 : Cardinality(TransitionsOf(i)) <= 1

\* a pair that meets every condition of two rules but the one on the change of
\* the current period, all three types occurring in the list
C25_Witness ==
    /\ After("cycles")
    /\ {marketCycles[k].type : k \in 1..Len(marketCycles)}
          \in {{"accumulation_to_markup", "distribution_to_markdown"},
               {"markup_to_distribution", "distribution_to_markdown"}}
    /\ \E i \in 1..5 :
          /\ Emitted(i, "distribution_to_markdown")
          /\ periods[i + 1].buyToSellRatio = [n |-> 0, d |-> 1]
          /\ periods[i].buyToSellRatio = [n |-> 0, d |-> 1]

\* the sum of the values of the normalized trades of the wallet, and of all
ValueOf(address) ==
    Sum([i \in 1..Len(sortedData) |->
            IF sortedData[i].trader_wallet_address = address
            THEN sortedData[i].transaction_value ELSE 0])

DatasetValue == Sum([i \in 1..Len(sortedData) |-> sortedData[i].transaction_value])

\* the sum of the marketImpact values of the list, in units of 1 / DatasetValue
ImpactSum ==
    Sum([i \in 1..Len(topWalletsImpact) |->
            topWalletsImpact[i].marketImpact.n
                * (DatasetValue \div topWalletsImpact[i].marketImpact.d)])

\* C22: for each wallet of the top-suspicious list, marketImpact equals 100 * (sum
\* of the values of the wallet's trades) / (sum of the values of all normalized
\* trades); with a positive dataset total each marketImpact lies in [0, 100] and
\* the marketImpact values of the list sum to at most 100.
C22_MarketImpact ==
    After("impact") =>
        /\ Len(topWalletsImpact) = Len(topSuspiciousWallets)
        /\ \A i \in 1..Len(topWalletsImpact) :
              LET wallet == topWalletsImpact[i]
                  impact == wallet.marketImpact
              IN  /\ wallet.address = topSuspiciousWallets[i].address
                  /\ IF DatasetValue > 0
                     THEN /\ impact.d > 0
                          /\ DatasetValue % impact.d = 0
                          /\ 100 * ValueOf(wallet.address)
                                = impact.n * (DatasetValue \div impact.d)
                          /\ 0 <= impact.n
                          /\ impact.n <= 100 * impact.d
                     ELSE impact = NaN
        /\ DatasetValue > 0 => ImpactSum <= 100 * DatasetValue

\* a list of 20 wallets with a share each, in a file where other wallets trade too
C22_Witness ==
    /\ After("impact")
    /\ Len(topWalletsImpact) = 20
    /\ \A i \in 1..20 : topWalletsImpact[i].marketImpact.n > 0
    /\ \E i \in 1..20, j \in 1..20 :
          topWalletsImpact[i].marketImpact # topWalletsImpact[j].marketImpact
    /\ ImpactSum < 100 * DatasetValue

\* a list that holds every wallet: the shares sum to 100
C22_WholeWitness ==
    /\ After("impact")
    /\ Len(topWalletsImpact) >= 2
    /\ DatasetValue > 0
    /\ ImpactSum = 100 * DatasetValue

\* the hour of a trade, and the hours that hold one
HourOf(i) == sortedData[i].trade_timestamp - (sortedData[i].trade_timestamp % 3600)

Hours == {HourOf(i) : i \in 1..Len(sortedData)}

\* the sum of the amounts of the side over the trades of the hour
HourAmount(hour, type) ==
    Sum([i \in 1..Len(sortedData) |->
            IF HourOf(i) = hour /\ sortedData[i].type = type
            THEN sortedData[i].buy_amount + sortedData[i].sell_amount ELSE 0])

\* the points are one per hour of the set, each with the volume of its hour
IsVolumeSeries(points, hours, type) ==
    /\ Len(points) = Cardinality(hours)
    /\ {points[k].x : k \in 1..Len(points)} = hours
    /\ \A k \in 1..Len(points) : points[k].y = HourAmount(points[k].x, type)

\* C23: the hourly volume series is gap-free: it has exactly one entry for every
\* hour from the first hour that holds a trade to the last (step 3600 s); an hour
\* without trades is present with buy volume 0 and sell volume 0, and an hour with
\* trades carries the sums of its buy and sell amounts.
C23_HourlySeriesIsGapFree ==
    After("charts") =>
        LET first == CHOOSE h \in Hours : \A g \in Hours : h <= g
            last == CHOOSE h \in Hours : \A g \in Hours : g <= h
            all == {first + 3600 * k : k \in 0..((last - first) \div 3600)}
        IN  /\ IsVolumeSeries(volumeChart.buyData, all, "TOKEN_BUY")
            /\ IsVolumeSeries(volumeChart.sellData, all, "TOKEN_SELL")

\* an hour without trades between two hours with trades, present with volume 0
C23_Witness ==
    /\ After("charts")
    /\ \E k \in 1..Len(volumeChart.buyData) :
          LET hour == volumeChart.buyData[k].x
          IN  /\ hour \notin Hours
              /\ hour - 3600 \in Hours
              /\ hour + 3600 \in Hours
              /\ volumeChart.buyData[k].y = 0
              /\ \E j \in 1..Len(volumeChart.sellData) :
                    volumeChart.sellData[j].x = hour /\ volumeChart.sellData[j].y = 0
    /\ \E k \in 1..Len(volumeChart.buyData) : volumeChart.buyData[k].y > 0
    /\ \E k \in 1..Len(volumeChart.sellData) : volumeChart.sellData[k].y > 0

\* C30: the points of the hourly volume series, buy and sell volume data, are
\* emitted in strictly increasing hour-timestamp order for every input, hour
\* timestamps with different numbers of decimal digits included.
C30_HourlySeriesAscending ==
    After("charts") =>
        /\ \A k \in 1..(Len(volumeChart.buyData) - 1) :
              volumeChart.buyData[k].x < volumeChart.buyData[k + 1].x
        /\ \A k \in 1..(Len(volumeChart.sellData) - 1) :
              volumeChart.sellData[k].x < volumeChart.sellData[k + 1].x

\* the candidate the report writes its narrative for, the first of the list
Candidate == pumpAndDumpPatterns[1].pump

\* whale buys before the start of the rise at a price below 80 % of the price the
\* rise starts from (the fraction startPrice.n / startPrice.d)
CheapWhaleBuysBefore ==
    {i \in 1..Len(sortedData) :
        /\ sortedData[i].type = "TOKEN_BUY"
        /\ sortedData[i].transaction_value >= 10000
        /\ sortedData[i].trade_timestamp < Candidate.startTimestamp
        /\ 100 * sortedData[i].buy_price * Candidate.startPrice.d < 80 * Candidate.startPrice.n}

\* buys of a value above 0 and below 1000 in the window of the rise
SmallBuysInWindow ==
    {i \in 1..Len(sortedData) :
        /\ sortedData[i].type = "TOKEN_BUY"
        /\ sortedData[i].transaction_value > 0
        /\ sortedData[i].transaction_value < 1000
        /\ sortedData[i].trade_timestamp >= Candidate.startTimestamp
        /\ sortedData[i].trade_timestamp <= Candidate.endTimestamp}

C24_NoEvidenceWitness ==
    /\ After("report")
    /\ pumpAndDumpPatterns # <<>>
    /\ CheapWhaleBuysBefore = {}
    /\ \E i \in 1..Len(sortedData) :
          /\ sortedData[i].transaction_value >= 10000
          /\ sortedData[i].trade_timestamp < Candidate.startTimestamp
    /\ pumpAndDumpEvidence = "not detected"

\* C26: for every wallet profile, totalTransactions equals buys.count +
\* sells.count after the fold over any normalized sequence, the total the
\* wallet-activity chart recomputes from the two counts.
C26_TotalIsBuysPlusSells ==
    Past({"timeRange", "wallets"}) =>
        \A i \in 1..Len(walletActivity) :
            walletActivity[i].totalTransactions
                = walletActivity[i].buys.count + walletActivity[i].sells.count

\* C27: the two computations of the global price extrema agree on every normalized
\* sequence: the highest and lowest price of the sort-based pass (highestPrice,
\* lowestPrice) equal the maximum and minimum of the single-pass reduction
\* (priceStats.max, priceStats.min); neither has a value when the other has none.
C27_PriceExtremaAgree ==
    After("extrema") =>
        IF sortedPrices = <<>>
        THEN priceStats.max = NULL /\ priceStats.min = NULL
        ELSE /\ priceStats.max = sortedPrices[1].price
             /\ priceStats.min = sortedPrices[Len(sortedPrices)].price

\* C28: in the suspicion scorer the burst increment implies the frequency
\* increment: a wallet with active hours < 1 and transaction count > 20 (the +4)
\* has transactionFrequency > 10 (the +3), with a positive duration and with
\* duration zero, so no wallet receives the +4 without the +3.
C28_BurstImpliesFrequency ==
    Past({"timeRange", "wallets", "score"}) =>
        \A k \in 1..Len(suspectedManipulators) :
            LET wallet == suspectedManipulators[k]
                hours == wallet.timeActiveHours
                frequency == wallet.transactionFrequency
            IN  (hours.n < hours.d /\ wallet.transactionCount > 20) =>
                    /\ frequency.d = 0 \/ frequency.n > 10 * frequency.d
                    /\ frequency.n > 0
                    /\ \A i \in 1..Len(walletActivity) :
                          walletActivity[i].address = wallet.address =>
                              /\ BurstIncrement(walletActivity[i]) = 4
                              /\ FrequencyIncrement(walletActivity[i]) = 3

\* a wallet with 21 transactions within 3599 s
C28_Witness ==
    /\ Past({"timeRange", "wallets", "score"})
    /\ \E k \in 1..Len(suspectedManipulators) :
          /\ suspectedManipulators[k].timeActiveHours = [n |-> 3599, d |-> 3600]
          /\ suspectedManipulators[k].transactionCount = 21
          /\ suspectedManipulators[k].suspiciousScore >= 7

\* a wallet with more than 20 transactions at one and the same second
C28_ZeroDurationWitness ==
    /\ Past({"timeRange", "wallets", "score"})
    /\ \E k \in 1..Len(suspectedManipulators) :
          /\ suspectedManipulators[k].timeActiveHours = [n |-> 0, d |-> 1]
          /\ suspectedManipulators[k].transactionCount > 20
          /\ suspectedManipulators[k].suspiciousScore >= 7

\* the 300 s buckets that hold a trade, and those of the suspicious-interval list
BucketKeys ==
    {sortedData[i].trade_timestamp - (sortedData[i].trade_timestamp % 300) :
        i \in 1..Len(sortedData)}

ListedKeys ==
    {suspiciousActivityIntervals[j].timestamp : j \in 1..Len(suspiciousActivityIntervals)}

TypesIn(key) == {sortedData[i].type : i \in InBucket(key)}

\* C29: every 300 s bucket whose trades are all buys or all sells has an interval
\* score of at least 2 and is in the suspicious-interval list; a bucket is left
\* out of the list only if it holds both a buy and a sell, its buy/sell count
\* ratio lies in [0.1, 10] and no wallet both buys and sells in it.
C29_OneSidedBucketsAreListed ==
    After("intervals") =>
        \A key \in BucketKeys :
            LET buys == Cardinality({i \in InBucket(key) : sortedData[i].type = "TOKEN_BUY"})
                sells == Cardinality({i \in InBucket(key) : sortedData[i].type = "TOKEN_SELL"})
            IN  /\ TypesIn(key) \in {{"TOKEN_BUY"}, {"TOKEN_SELL"}} =>
                      \E j \in 1..Len(suspiciousActivityIntervals) :
                          /\ suspiciousActivityIntervals[j].timestamp = key
                          /\ suspiciousActivityIntervals[j].suspiciousScore >= 2
                /\ key \notin ListedKeys =>
                      /\ buys > 0 /\ sells > 0
                      /\ 10 * buys >= sells /\ buys <= 10 * sells
                      /\ \A i \in InBucket(key), j \in InBucket(key) :
                            (sortedData[i].type = "TOKEN_BUY" /\ sortedData[j].type = "TOKEN_SELL")
                                => sortedData[i].trader_wallet_address
                                      # sortedData[j].trader_wallet_address

\* a bucket of one buy listed with score 2, a bucket of sells listed, and a bucket
\* of buys and a sell of another wallet left out
C29_Witness ==
    /\ After("intervals")
    /\ \E j \in 1..Len(suspiciousActivityIntervals) :
          /\ suspiciousActivityIntervals[j].suspiciousScore = 2
          /\ suspiciousActivityIntervals[j].totalTransactions = 1
          /\ TypesIn(suspiciousActivityIntervals[j].timestamp) = {"TOKEN_BUY"}
    /\ \E j \in 1..Len(suspiciousActivityIntervals) :
          TypesIn(suspiciousActivityIntervals[j].timestamp) = {"TOKEN_SELL"}
    /\ BucketKeys \ ListedKeys # {}

====
